---- MODULE Spec2Model ----
(***************************************************************************)
(* Model of the ComfyUI desktop runtime supervisor:                        *)
(*   - ComfyServer (start / kill / child-process events / health probe),   *)
(*   - ComfyServer.launchArgs (core arguments merged with serverArgs),     *)
(*   - VirtualEnvironment.runPtyCommandAsync (end-marker detection),       *)
(*   - VirtualEnvironment.parseExitCode on arbitrary marker text,          *)
(*   - VirtualEnvironment operations that run uv / python commands         *)
(*     (create, reinstallRequirements, ...) and                            *)
(*     InstallationManager.updatePackages,                                 *)
(*   - VirtualEnvironment.hasRequirements on the text of the two dry runs, *)
(*   - InstallationManager.ensureInstalled (first install, validation and  *)
(*     the issue-resolution loop),                                         *)
(*   - ComfySettings (load / set / get / saveSettings and the write lock), *)
(*   - the app state module and DesktopApp.start,                          *)
(*   - one VirtualEnvironment whose pty is used by several callers,        *)
(*   - the COMPLETE_VALIDATION channel (resolveIssues and                  *)
(*     showTroubleshootingPage).                                           *)
(* Each part has its own specification (SpecServer, SpecArgs, SpecPty,     *)
(* SpecParse, SpecVenv, SpecReq, SpecInstall, SpecInstallLive,             *)
(* SpecSettings, SpecApp, SpecSharedPty, SpecChannel); the variables of    *)
(* the other parts stay at their initial values.                           *)
(***************************************************************************)
EXTENDS Integers, Sequences, FiniteSets, TLC

\* ---------------------------------------------------------------- bounds
\* Number of start() calls made on the one ComfyServer instance.
MaxStarts == 2
\* Number of kill() calls made on the one ComfyServer instance.
MaxKills == 1
\* Number of tokens of the text handed to parseExitCode.
MaxExitLen == 3
\* Number of operations called, one after the other, on the one VirtualEnvironment.
MaxCalls == 2
\* Number of lines of a `uv pip install --dry-run` output.
MaxOutputLines == 2
\* Number of times the troubleshooting page asks for a recheck.
MaxRechecks == 2
\* Number of calls made on ComfySettings instances.
MaxSettingsCalls == 3
\* Number of DesktopApp.start() runs, and of direct calls on the app-state module.
MaxRuns == 2
MaxAppCalls == 3
\* Number of operations each caller of a shared VirtualEnvironment invokes.
MaxCallerOps == 2
\* Number of DesktopApp.showTroubleshootingPage() calls.
MaxPageCalls == 2

Attempts == 1..MaxStarts
Kills == 1..MaxKills

VARIABLES
    \* ComfyServer
    comfyServerProcess,       \* 0 = null, a = the child spawned by start() call a
    timedOutWhilstStarting,   \* ComfyServer.timedOutWhilstStarting
    writeLocked,              \* ComfySettings.writeLocked (static)
    startOutcome,             \* per start() call: position / how its promise settled
    child,                    \* per start() call: the child returned by runPythonCommand
    exitCode,                 \* per child: code passed to its 'exit' event
    errorEmitted,             \* per child: its 'error' event has fired
    errorListener,            \* per child: rejectOnError is registered on 'error'
    probe,                    \* per start() call: the waitOn promise
    lastSpawned,              \* the start() call whose executor ran most recently
    killState,                \* per kill() call: how its promise settled
    killTarget,               \* per kill() call: the process it captured
    killResult,               \* per kill() call: what process.kill() returned
    killTimer,                \* per kill() call: the 10 s timer is armed
    killListener,             \* per kill() call: its once('exit') listener is registered
    \* ComfyServer.launchArgs
    serverArgs,               \* constructor argument: sequence of <<key, value>> entries
    launchArgv,               \* the vector handed to runPythonCommand (<<>> before)
    buildArgs,                \* the object handed to buildLaunchArgs
    buildDone,                \* buildLaunchArgs has returned
    buildResult,              \* what it returned
    \* VirtualEnvironment.runPtyCommandAsync
    ptyShell,                 \* the shell behind uvPty: "posix" (bash, zsh) or "powershell"
    ptyCmdExit,               \* the exit code the shell's command really finishes with
    ptyStream,                \* everything the pty will emit for this run (<<>> before)
    ptyPos,                   \* how much of ptyStream has been emitted
    ptyReader,                \* the onData listener (dataReader) is registered
    ptyResolved,              \* the promise returned by runPtyCommandAsync resolved
    ptyExitCode,              \* the exitCode it resolved with
    ptySink,                  \* the data passed to the caller's onData so far
    ptyAlive,                 \* the shell process behind the pty is still running
    \* parseExitCode
    parseExit,                \* the text found after the marker
    parseDone,                \* parseExitCode has returned
    parseCode,                \* the number it returned
    \* VirtualEnvironment operations
    platform,                 \* process.platform
    deviceArg,                \* constructor argument selectedDevice
    mirrorArg,                \* constructor argument torchMirror
    selectedDevice,           \* VirtualEnvironment.selectedDevice
    torchMirror,              \* VirtualEnvironment.torchMirror
    venvExists,               \* the directory venvPath is accessible
    uvPty,                    \* VirtualEnvironment.uvPty: "undefined" or "alive"
    veOp,                     \* the operation called last ("none" before the first)
    veStep,                   \* the command that operation is awaiting ("none": not running)
    veAttempt,                \* reinstallRequirements: which manualInstall is running
    veResult,                 \* how the operation called last ended
    veLog,                    \* the commands that operation has run, with their exit codes
    vePrevOp,                 \* the operation called before veOp
    vePrevResult,             \* how that one ended
    veCalls,                  \* number of operations called
    \* VirtualEnvironment.hasRequirements
    coreOutput,               \* text of the dry run on ComfyUI's requirements.txt
    managerOutput,            \* text of the dry run on ComfyUI-Manager's requirements.txt
    reqResult,                \* what hasRequirements returned ("none" before)
    \* InstallationManager.ensureInstalled
    imConfig,                 \* the persisted install state read by fromConfig
    imState,                  \* installation.state ("none": no installation object)
    imPc,                     \* what ensureInstalled is awaiting / how it ended
    imLog,                    \* the steps it has completed
    imReport,                 \* installation.validation
    imRechecks,               \* number of onInstallFix calls
    \* ComfySettings (one key of the settings file)
    csSettings,               \* per instance: this.settings[key] ("unloaded" before load)
    csFile,                   \* the value in comfy.settings.json ("absent": no file)
    csWriting,                \* per instance: the text an fs.writeFile in flight carries
    csLast,                   \* the call made last and how it ended
    csCalls,                  \* number of calls made
    \* main-process/appState.ts
    initialized,              \* module-level `initialized`
    ipcRegistered,            \* AppState.ipcRegistered
    loaded,                   \* AppState.loaded
    isQuitting,               \* AppState.isQuitting
    currentPage,              \* AppState.currentPage
    onceListeners,            \* events whose once() listener of initialize() is still on
    emitted,                  \* per event: number of emit() calls so far
    appCall,                  \* the call made last on the module by some other caller
    appCalls,                 \* number of such calls
    \* DesktopApp.start()
    daRun,                    \* number of start() runs begun
    daPc,                     \* what the current run awaits / how it ended
    daSent,                   \* progress statuses sent by the current run
    daInstalled,              \* ensureInstalled() resolved in the current run
    daFailed,                 \* the step of the current run that failed ("none")
    daServerCalls,            \* startComfyServer() calls of the current run
    daServerResolved,         \* startComfyServer() resolved in the current run
    daServerSkipped,          \* the run found serverRunning true
    serverRunning,            \* ComfyDesktopApp.serverRunning
    useExternalServer,        \* overrides.useExternalServer
    \* one VirtualEnvironment used by several callers
    shPty,                    \* this.uvPty: 0 (undefined) or the id of the pty
    shSpawned,                \* number of ptys spawned so far
    shAlive,                  \* the ptys that have not been killed
    shQueue,                  \* per pty: the callers whose command it has yet to finish
    cOp,                      \* per caller: the operation it invoked last
    cPc,                      \* per caller: "idle", "awaiting", "done" or "threw"
    cPty,                     \* per caller: the pty its data reader is attached to
    cOps,                     \* per caller: number of operations invoked
    \* the COMPLETE_VALIDATION channel of ipcMain
    cvHandler,                \* who registered the handler in place: "none" if none
    cvRefused,                \* whose handleOnce found a handler in place and threw
    cvInstallation,           \* DesktopApp.installation is set
    riPc,                     \* resolveIssues: where it is / how it ended
    riValid,                  \* installation.isValid
    riRuns,                   \* number of resolveIssues calls
    stPc,                     \* showTroubleshootingPage: where it is / how it ended
    stCalls                   \* number of showTroubleshootingPage calls

serverVars == <<comfyServerProcess, timedOutWhilstStarting, writeLocked, startOutcome,
                child, exitCode, errorEmitted, errorListener, probe, lastSpawned,
                killState, killTarget, killResult, killTimer, killListener>>

argsVars == <<serverArgs, launchArgv, buildArgs, buildDone, buildResult>>

ptyVars == <<ptyShell, ptyCmdExit, ptyStream, ptyPos, ptyReader, ptyResolved,
            ptyExitCode, ptySink, ptyAlive>>

parseVars == <<parseExit, parseDone, parseCode>>

venvConfig == <<platform, deviceArg, mirrorArg, selectedDevice, torchMirror>>
venvVars == <<venvConfig, venvExists, uvPty, veOp, veStep, veAttempt, veResult, veLog,
             vePrevOp, vePrevResult, veCalls>>

reqVars == <<coreOutput, managerOutput, reqResult>>

installVars == <<imConfig, imState, imPc, imLog, imReport, imRechecks>>

settingsVars == <<csSettings, csFile, csWriting, csLast, csCalls>>

appVars == <<initialized, ipcRegistered, loaded, isQuitting, currentPage, onceListeners,
            emitted, appCall, appCalls, daRun, daPc, daSent, daInstalled, daFailed,
            daServerCalls, daServerResolved, daServerSkipped, serverRunning,
            useExternalServer>>

sharedPtyVars == <<shPty, shSpawned, shAlive, shQueue, cOp, cPc, cPty, cOps>>

channelVars == <<cvHandler, cvRefused, cvInstallation, riPc, riValid, riRuns, stPc,
                stCalls>>

nonServerVars == <<argsVars, ptyVars, parseVars, venvVars, reqVars, installVars,
                   settingsVars, appVars, sharedPtyVars, channelVars>>
nonArgsVars == <<serverVars, ptyVars, parseVars, venvVars, reqVars, installVars,
                 settingsVars, appVars, sharedPtyVars, channelVars>>
nonPtyVars == <<serverVars, argsVars, parseVars, venvVars, reqVars, installVars,
                settingsVars, appVars, sharedPtyVars, channelVars>>
nonParseVars == <<serverVars, argsVars, ptyVars, venvVars, reqVars, installVars,
                  settingsVars, appVars, sharedPtyVars, channelVars>>
nonVenvVars == <<serverVars, argsVars, ptyVars, parseVars, reqVars, installVars,
                 settingsVars, appVars, sharedPtyVars, channelVars>>
nonReqVars == <<serverVars, argsVars, ptyVars, parseVars, venvVars, installVars,
                settingsVars, appVars, sharedPtyVars, channelVars>>

nonInstallVars == <<serverVars, argsVars, ptyVars, parseVars, venvVars, reqVars,
                    settingsVars, appVars, sharedPtyVars, channelVars>>

nonSettingsVars == <<serverVars, argsVars, ptyVars, parseVars, venvVars, reqVars, installVars,
                     appVars, sharedPtyVars, channelVars>>

nonAppVars == <<serverVars, argsVars, ptyVars, parseVars, venvVars, reqVars, installVars,
        settingsVars, sharedPtyVars, channelVars>>

nonSharedPtyVars == <<serverVars, argsVars, ptyVars, parseVars, venvVars, reqVars, installVars,
        settingsVars, appVars, channelVars>>

nonChannelVars == <<serverVars, argsVars, ptyVars, parseVars, venvVars, reqVars, installVars,
        settingsVars, appVars, sharedPtyVars>>

vars == <<serverVars, argsVars, ptyVars, parseVars, venvVars, reqVars, installVars,
        settingsVars, appVars, sharedPtyVars, channelVars>>

\* The code passed to 'exit' when the child was terminated by a signal (null in Node).
NullCode == -1
NoCode == -2
ExitCodes == {0, 1, NullCode}

\* A promise settles once: resolve()/reject() on a settled promise is a no-op.
Settle(cur, new) == IF cur = "pending" THEN new ELSE cur

\* get isRunning() { return !!this.comfyServerProcess }
isRunning == comfyServerProcess /= 0

InitServer ==
    /\ comfyServerProcess = 0
    /\ timedOutWhilstStarting = FALSE
    /\ writeLocked = FALSE
    /\ startOutcome = [a \in Attempts |-> "notCalled"]
    /\ child = [a \in Attempts |-> "none"]
    /\ exitCode = [a \in Attempts |-> NoCode]
    /\ errorEmitted = [a \in Attempts |-> FALSE]
    /\ errorListener = [a \in Attempts |-> FALSE]
    /\ probe = [a \in Attempts |-> "none"]
    /\ lastSpawned = 0
    /\ killState = [k \in Kills |-> "notCalled"]
    /\ killTarget = [k \in Kills |-> 0]
    /\ killResult = [k \in Kills |-> "none"]
    /\ killTimer = [k \in Kills |-> FALSE]
    /\ killListener = [k \in Kills |-> FALSE]

killVars == <<killState, killTarget, killResult, killTimer, killListener>>
childVars == <<child, exitCode, errorEmitted, errorListener>>

\* start(): the synchronous prefix up to the first await.
StartCall(a) ==
    /\ startOutcome[a] = "notCalled"
    /\ IF a = 1 THEN TRUE ELSE startOutcome[a - 1] /= "notCalled"
    /\ IF isRunning
          THEN /\ startOutcome' = [startOutcome EXCEPT ![a] = "alreadyRunning"]
               /\ UNCHANGED writeLocked
          ELSE /\ writeLocked' = TRUE
               /\ startOutcome' = [startOutcome EXCEPT ![a] = "awaitConfig"]
    /\ UNCHANGED <<comfyServerProcess, timedOutWhilstStarting, childVars, probe,
                   lastSpawned, killVars>>
    /\ UNCHANGED nonServerVars

\* await ComfyServerConfig.addAppBundledCustomNodesToConfig() fulfils.
StartConfigDone(a) ==
    /\ startOutcome[a] = "awaitConfig"
    /\ startOutcome' = [startOutcome EXCEPT ![a] = "awaitRotate"]
    /\ UNCHANGED <<comfyServerProcess, timedOutWhilstStarting, writeLocked, childVars,
                   probe, lastSpawned, killVars>>
    /\ UNCHANGED nonServerVars

\* One of the two awaited pre-spawn promises rejects: start() rejects, nothing is spawned.
StartPreSpawnFail(a) ==
    /\ startOutcome[a] \in {"awaitConfig", "awaitRotate"}
    /\ startOutcome' = [startOutcome EXCEPT ![a] = "rejectedPreSpawn"]
    /\ UNCHANGED <<comfyServerProcess, timedOutWhilstStarting, writeLocked, childVars,
                   probe, lastSpawned, killVars>>
    /\ UNCHANGED nonServerVars

\* await rotateLogFiles() fulfils and the promise executor runs: reset the flag, spawn,
\* register the 'error' and 'exit' listeners, record the process, start the probe.
\* The spawn either yields a live process or fails (the child then only emits 'error').
StartSpawn(a) ==
    /\ startOutcome[a] = "awaitRotate"
    /\ timedOutWhilstStarting' = FALSE
    /\ \E c \in {"alive", "spawnFailed"} : child' = [child EXCEPT ![a] = c]
    /\ errorListener' = [errorListener EXCEPT ![a] = TRUE]
    /\ comfyServerProcess' = a
    /\ probe' = [probe EXCEPT ![a] = "polling"]
    /\ startOutcome' = [startOutcome EXCEPT ![a] = "pending"]
    /\ lastSpawned' = a
    /\ UNCHANGED <<writeLocked, exitCode, errorEmitted, killVars>>
    /\ UNCHANGED nonServerVars

\* The child emits 'error' (could not be spawned, or could not be killed while alive).
\* rejectOnError runs only while it is still registered.
ChildError(a) ==
    /\ child[a] \in {"alive", "spawnFailed"}
    /\ ~errorEmitted[a]
    /\ errorEmitted' = [errorEmitted EXCEPT ![a] = TRUE]
    /\ IF errorListener[a]
          THEN /\ comfyServerProcess' = 0
               /\ startOutcome' = [startOutcome EXCEPT ![a] = Settle(@, "rejectedError")]
          ELSE UNCHANGED <<comfyServerProcess, startOutcome>>
    /\ UNCHANGED <<timedOutWhilstStarting, writeLocked, child, exitCode, errorListener,
                   probe, lastSpawned, killVars>>
    /\ UNCHANGED nonServerVars

\* Mutant of ChildExit: the 'exit' listener forgets `this.comfyServerProcess = null`.
ChildExitKeepsProcess(a, code) ==
    /\ child[a] = "alive"
    /\ child' = [child EXCEPT ![a] = "exited"]
    /\ exitCode' = [exitCode EXCEPT ![a] = code]
    /\ startOutcome' = [startOutcome EXCEPT ![a] =
                          Settle(@, IF code /= 0 THEN "rejectedExit" ELSE "resolvedExit")]
    /\ killTimer' = [k \in Kills |->
                       IF killListener[k] /\ killTarget[k] = a THEN FALSE ELSE killTimer[k]]
    /\ killState' = [k \in Kills |->
                       IF killListener[k] /\ killTarget[k] = a
                          THEN Settle(killState[k], "resolvedExit") ELSE killState[k]]
    /\ killListener' = [k \in Kills |->
                       IF killTarget[k] = a THEN FALSE ELSE killListener[k]]
    /\ UNCHANGED <<comfyServerProcess, timedOutWhilstStarting, writeLocked, errorEmitted,
                   errorListener, probe, lastSpawned, killTarget, killResult>>
    /\ UNCHANGED nonServerVars

\* The child emits 'exit' with the given code: start()'s listener runs first, then every
\* once('exit') listener that kill() registered on this child.
ChildExit(a, code) ==
    /\ child[a] = "alive"
    /\ child' = [child EXCEPT ![a] = "exited"]
    /\ exitCode' = [exitCode EXCEPT ![a] = code]
    /\ comfyServerProcess' = 0
    /\ startOutcome' = [startOutcome EXCEPT ![a] =
                          Settle(@, IF code /= 0 THEN "rejectedExit" ELSE "resolvedExit")]
    /\ killTimer' = [k \in Kills |->
                       IF killListener[k] /\ killTarget[k] = a THEN FALSE ELSE killTimer[k]]
    /\ killState' = [k \in Kills |->
                       IF killListener[k] /\ killTarget[k] = a
                          THEN Settle(killState[k], "resolvedExit") ELSE killState[k]]
    /\ killListener' = [k \in Kills |->
                       IF killTarget[k] = a THEN FALSE ELSE killListener[k]]
    /\ UNCHANGED <<timedOutWhilstStarting, writeLocked, errorEmitted, errorListener,
                   probe, lastSpawned, killTarget, killResult>>
    /\ UNCHANGED nonServerVars

\* waitOn fulfils: the health endpoint answered.
ProbeOk(a) ==
    /\ probe[a] = "polling"
    /\ probe' = [probe EXCEPT ![a] = "ok"]
    /\ errorListener' = [errorListener EXCEPT ![a] = FALSE]
    /\ startOutcome' = [startOutcome EXCEPT ![a] = Settle(@, "resolvedProbe")]
    /\ UNCHANGED <<comfyServerProcess, timedOutWhilstStarting, writeLocked, child,
                   exitCode, errorEmitted, lastSpawned, killVars>>
    /\ UNCHANGED nonServerVars

\* Mutant of ProbeTimeout: the catch handler forgets `this.timedOutWhilstStarting = true`.
ProbeTimeoutFlagNotSet(a) ==
    /\ probe[a] = "polling"
    /\ probe' = [probe EXCEPT ![a] = "timeout"]
    /\ startOutcome' = [startOutcome EXCEPT ![a] = Settle(@, "rejectedTimeout")]
    /\ UNCHANGED <<comfyServerProcess, timedOutWhilstStarting, writeLocked, childVars,
                   lastSpawned, killVars>>
    /\ UNCHANGED nonServerVars

\* waitOn rejects: MAX_FAIL_WAIT elapsed without an answer.
ProbeTimeout(a) ==
    /\ probe[a] = "polling"
    /\ probe' = [probe EXCEPT ![a] = "timeout"]
    /\ timedOutWhilstStarting' = TRUE
    /\ startOutcome' = [startOutcome EXCEPT ![a] = Settle(@, "rejectedTimeout")]
    /\ UNCHANGED <<comfyServerProcess, writeLocked, childVars, lastSpawned, killVars>>
    /\ UNCHANGED nonServerVars

\* Mutant of KillCall: the timer is armed before the `!this.comfyServerProcess` check.
KillCallArmsTimerFirst(k) ==
    /\ killState[k] = "notCalled"
    /\ IF k = 1 THEN TRUE ELSE killState[k - 1] /= "notCalled"
    /\ IF comfyServerProcess = 0
          THEN /\ killState' = [killState EXCEPT ![k] = "resolvedNoProcess"]
               /\ killTimer' = [killTimer EXCEPT ![k] = TRUE]
               /\ UNCHANGED <<killTarget, killResult, killListener>>
          ELSE /\ killTarget' = [killTarget EXCEPT ![k] = comfyServerProcess]
               /\ killListener' = [killListener EXCEPT ![k] = TRUE]
               /\ \E result \in (IF child[comfyServerProcess] = "alive"
                                    THEN BOOLEAN ELSE {FALSE}) :
                     IF result
                        THEN /\ killResult' = [killResult EXCEPT ![k] = "sent"]
                             /\ killTimer' = [killTimer EXCEPT ![k] = TRUE]
                             /\ killState' = [killState EXCEPT ![k] = "pending"]
                        ELSE /\ killResult' = [killResult EXCEPT ![k] = "failed"]
                             /\ killTimer' = [killTimer EXCEPT ![k] = FALSE]
                             /\ killState' = [killState EXCEPT ![k] = "rejectedSignal"]
    /\ UNCHANGED <<comfyServerProcess, timedOutWhilstStarting, writeLocked, startOutcome,
                   childVars, probe, lastSpawned>>
    /\ UNCHANGED nonServerVars

\* Mutant of KillCall: the `if (!result)` branch is missing, a failed signal is awaited.
KillCallIgnoresFailedSignal(k) ==
    /\ killState[k] = "notCalled"
    /\ IF k = 1 THEN TRUE ELSE killState[k - 1] /= "notCalled"
    /\ IF comfyServerProcess = 0
          THEN /\ killState' = [killState EXCEPT ![k] = "resolvedNoProcess"]
               /\ UNCHANGED <<killTarget, killResult, killTimer, killListener>>
          ELSE /\ killTarget' = [killTarget EXCEPT ![k] = comfyServerProcess]
               /\ killListener' = [killListener EXCEPT ![k] = TRUE]
               /\ \E result \in (IF child[comfyServerProcess] = "alive"
                                    THEN BOOLEAN ELSE {FALSE}) :
                     /\ killResult' = [killResult EXCEPT ![k] =
                                          IF result THEN "sent" ELSE "failed"]
                     /\ killTimer' = [killTimer EXCEPT ![k] = TRUE]
                     /\ killState' = [killState EXCEPT ![k] = "pending"]
    /\ UNCHANGED <<comfyServerProcess, timedOutWhilstStarting, writeLocked, startOutcome,
                   childVars, probe, lastSpawned>>
    /\ UNCHANGED nonServerVars

\* kill(): the whole promise executor.  process.kill() returns false for a child that
\* never ran, and true or false for a live one.
KillCall(k) ==
    /\ killState[k] = "notCalled"
    /\ IF k = 1 THEN TRUE ELSE killState[k - 1] /= "notCalled"
    /\ IF comfyServerProcess = 0
          THEN /\ killState' = [killState EXCEPT ![k] = "resolvedNoProcess"]
               /\ UNCHANGED <<killTarget, killResult, killTimer, killListener>>
          ELSE /\ killTarget' = [killTarget EXCEPT ![k] = comfyServerProcess]
               /\ killListener' = [killListener EXCEPT ![k] = TRUE]
               /\ \E result \in (IF child[comfyServerProcess] = "alive"
                                    THEN BOOLEAN ELSE {FALSE}) :
                     IF result
                        THEN /\ killResult' = [killResult EXCEPT ![k] = "sent"]
                             /\ killTimer' = [killTimer EXCEPT ![k] = TRUE]
                             /\ killState' = [killState EXCEPT ![k] = "pending"]
                        ELSE /\ killResult' = [killResult EXCEPT ![k] = "failed"]
                             /\ killTimer' = [killTimer EXCEPT ![k] = FALSE]
                             /\ killState' = [killState EXCEPT ![k] = "rejectedSignal"]
    /\ UNCHANGED <<comfyServerProcess, timedOutWhilstStarting, writeLocked, startOutcome,
                   childVars, probe, lastSpawned>>
    /\ UNCHANGED nonServerVars

\* The 10 s timer of kill() fires.
KillTimerFires(k) ==
    /\ killTimer[k]
    /\ killTimer' = [killTimer EXCEPT ![k] = FALSE]
    /\ killState' = [killState EXCEPT ![k] = Settle(@, "rejectedTimeout")]
    /\ UNCHANGED <<comfyServerProcess, timedOutWhilstStarting, writeLocked, startOutcome,
                   childVars, probe, lastSpawned, killTarget, killResult, killListener>>
    /\ UNCHANGED nonServerVars

NextServer ==
    \/ \E a \in Attempts : StartCall(a)
    \/ \E a \in Attempts : StartConfigDone(a)
    \/ \E a \in Attempts : StartPreSpawnFail(a)
    \/ \E a \in Attempts : StartSpawn(a)
    \/ \E a \in Attempts : ChildError(a)
    \/ \E a \in Attempts, code \in ExitCodes : ChildExit(a, code)
    \/ \E a \in Attempts : ProbeOk(a)
    \/ \E a \in Attempts : ProbeTimeout(a)
    \/ \E k \in Kills : KillCall(k)
    \/ \E k \in Kills : KillTimerFires(k)

\* ------------------------------------------------------- launch arguments
\* A JS object with string keys is a sequence of <<key, value>> entries in insertion order.
basePath == "/base"
resourcesPath == "/res"
mainScriptPath == resourcesPath \o "/ComfyUI/main.py"
configPath == "/userData/extra_models_config.yaml"

coreLaunchArgs ==
    << <<"user-directory", basePath \o "/user">>,
       <<"input-directory", basePath \o "/input">>,
       <<"output-directory", basePath \o "/output">>,
       <<"front-end-root", resourcesPath \o "/ComfyUI/web_custom_versions/desktop_app">>,
       <<"base-directory", basePath>>,
       <<"extra-model-paths-config", configPath>>,
       <<"log-stdout", "">> >>

HasKey(obj, k) == \E i \in 1..Len(obj) : obj[i][1] = k
ValueOf(obj, k) == obj[CHOOSE i \in 1..Len(obj) : obj[i][1] = k][2]

\* Assigning a property: an existing key keeps its position and takes the new value,
\* a new key is appended.
SetProperty(obj, k, v) ==
    IF HasKey(obj, k)
       THEN [i \in 1..Len(obj) |-> IF obj[i][1] = k THEN <<k, v>> ELSE obj[i]]
       ELSE Append(obj, <<k, v>>)

\* { ...a, ...b }
RECURSIVE ObjectSpread(_, _)
ObjectSpread(a, b) ==
    IF b = <<>> THEN a
    ELSE ObjectSpread(SetProperty(a, Head(b)[1], Head(b)[2]), Tail(b))

\* Object.entries(args).flatMap(([key, value]) => [`--${key}`, value])
RECURSIVE FlatMapEntries(_)
FlatMapEntries(args) ==
    IF args = <<>> THEN <<>>
    ELSE <<"--" \o Head(args)[1], Head(args)[2]>> \o FlatMapEntries(Tail(args))

NotEmptyString(v) == v /= ""

\* Object.entries(args): the keys that are array indices first, in ascending numeric
\* order, then the other keys in insertion order.
IntegerKeys == <<"0", "1">>
IsIntegerKey(k) == \E n \in 1..Len(IntegerKeys) : IntegerKeys[n] = k
HasStringKey(entry) == ~IsIntegerKey(entry[1])
RECURSIVE IntegerEntries(_, _)
IntegerEntries(obj, n) ==
    IF n > Len(IntegerKeys) THEN <<>>
    ELSE (IF HasKey(obj, IntegerKeys[n])
             THEN << <<IntegerKeys[n], ValueOf(obj, IntegerKeys[n])>> >>
             ELSE <<>>) \o IntegerEntries(obj, n + 1)
ObjectEntries(obj) == IntegerEntries(obj, 1) \o SelectSeq(obj, HasStringKey)

buildLaunchArgsKeepsEmptyValues(args) == FlatMapEntries(ObjectEntries(args))

buildLaunchArgs(args) == SelectSeq(FlatMapEntries(ObjectEntries(args)), NotEmptyString)

launchArgs == <<mainScriptPath>> \o buildLaunchArgs(ObjectSpread(coreLaunchArgs, serverArgs))

\* Caller-supplied ServerArgs: listen and port, then any of the extra keys.
ListenValues == {"127.0.0.1"}
PortValues == {"8000", "8188"}
ExtraKeys == <<"base-directory", "log-stdout", "front-end-root", "cpu">>
ExtraValues == {"", "/other"}
Absent == "<absent>"

RECURSIVE ExtraEntries(_, _)
ExtraEntries(choice, i) ==
    IF i > Len(ExtraKeys) THEN <<>>
    ELSE (IF choice[i] = Absent THEN <<>> ELSE << <<ExtraKeys[i], choice[i]>> >>)
         \o ExtraEntries(choice, i + 1)

ServerArgsChoices ==
    { << <<"listen", l>>, <<"port", p>> >> \o ExtraEntries(c, 1) :
        l \in ListenValues, p \in PortValues,
        c \in [1..Len(ExtraKeys) -> ExtraValues \cup {Absent}] }

DefaultServerArgs == << <<"listen", "127.0.0.1">>, <<"port", "8000">> >>

\* Objects handed to buildLaunchArgs directly: any keys of ArgKeys in any insertion
\* order, each with an empty or a non-empty value.
ArgKeys == {"port", "cpu", "0", "1"}
ArgValues == {"", "8188"}
Injective(seq) == \A i, j \in 1..Len(seq) : seq[i][1] = seq[j][1] => i = j
ArgObjects ==
    UNION {{obj \in [1..n -> ArgKeys \X ArgValues] : Injective(obj)} :
             n \in 0..Cardinality(ArgKeys)}

InitArgsIdle ==
    /\ serverArgs = DefaultServerArgs
    /\ launchArgv = <<>>
    /\ buildArgs = <<>>
    /\ buildDone = FALSE
    /\ buildResult = <<>>

InitArgs ==
    /\ serverArgs \in ServerArgsChoices
    /\ launchArgv = <<>>
    /\ buildArgs \in ArgObjects
    /\ buildDone = FALSE
    /\ buildResult = <<>>

\* The launchArgs getter is evaluated for the runPythonCommand call.
ComputeLaunchArgs ==
    /\ launchArgv = <<>>
    /\ launchArgv' = launchArgs
    /\ UNCHANGED <<serverArgs, buildArgs, buildDone, buildResult>>
    /\ UNCHANGED nonArgsVars

\* ComfyServer.buildLaunchArgs(args) called on its own.
BuildLaunchArgs ==
    /\ ~buildDone
    /\ buildDone' = TRUE
    /\ buildResult' = buildLaunchArgs(buildArgs)
    /\ UNCHANGED <<serverArgs, launchArgv, buildArgs>>
    /\ UNCHANGED nonArgsVars

NextArgs == ComputeLaunchArgs \/ BuildLaunchArgs

\* ------------------------------------------------------ interactive channel
\* Text is a sequence of tokens; a chunk boundary can fall between any two tokens.
\* The end marker `_-end-${id}:` is two tokens so that a boundary can fall inside it.
endMarker == <<"_-end-", "1730000000000:">>
CRLF == "\r\n"
LF == "\n"
AnsiTokens == {"ESC[32m", "ESC[0m", "ESC[K"}
Whitespace == {" ", "\t", "\r", CRLF, LF}
DigitTokens == <<"0", "1", "2", "3", "4", "5", "6", "7", "8", "9">>
IsDigit(t) == \E d \in 1..10 : DigitTokens[d] = t
DigitValue(t) == (CHOOSE d \in 1..10 : DigitTokens[d] = t) - 1

RECURSIVE Digits(_)
Digits(n) == IF n < 10 THEN <<DigitTokens[n + 1]>>
             ELSE Digits(n \div 10) \o <<DigitTokens[(n % 10) + 1]>>

RECURSIVE Join(_)
Join(ts) == IF ts = <<>> THEN "" ELSE Head(ts) \o Join(Tail(ts))

\* data.replaceAll(/\u001B\[[\d;?]*[A-Za-z]/g, '')
NotAnsi(t) == t \notin AnsiTokens
StripAnsi(data) == SelectSeq(data, NotAnsi)

\* .split(/(\r\n|\n)/): the lines, with each separator as an element of its own.
RECURSIVE SplitLines(_, _)
SplitLines(data, cur) ==
    IF data = <<>> THEN <<cur>>
    ELSE IF Head(data) \in {CRLF, LF}
            THEN <<cur, <<Head(data)>>>> \o SplitLines(Tail(data), <<>>)
            ELSE SplitLines(Tail(data), Append(cur, Head(data)))

StartsWith(line, prefix) ==
    Len(line) >= Len(prefix) /\ SubSeq(line, 1, Len(prefix)) = prefix

RECURSIVE TrimStart(_)
TrimStart(ts) == IF ts /= <<>> /\ Head(ts) \in Whitespace THEN TrimStart(Tail(ts)) ELSE ts
RECURSIVE TrimEnd(_)
TrimEnd(ts) == IF ts /= <<>> /\ ts[Len(ts)] \in Whitespace
                  THEN TrimEnd(SubSeq(ts, 1, Len(ts) - 1)) ELSE ts
Trim(ts) == TrimEnd(TrimStart(ts))

\* hasExited: the trimmed rest of the first line that starts with the marker, or
\* undefined (found = FALSE).
hasExited(data, marker) ==
    LET lines == SplitLines(StripAnsi(data), <<>>)
        hits == {i \in 1..Len(lines) : StartsWith(lines[i], marker)}
    IN IF hits = {} THEN [found |-> FALSE, text |-> <<>>]
       ELSE LET i == CHOOSE h \in hits : \A g \in hits : h <= g
            IN [found |-> TRUE,
                text |-> Trim(SubSeq(lines[i], Len(marker) + 1, Len(lines[i])))]

\* Number.parseInt: optional whitespace and sign, then the longest run of digits;
\* NaN when there is no digit.
RECURSIVE DigitRun(_)
DigitRun(ts) == IF ts /= <<>> /\ IsDigit(Head(ts)) THEN <<Head(ts)>> \o DigitRun(Tail(ts))
                ELSE <<>>
RECURSIVE DigitsValue(_, _)
DigitsValue(ds, acc) == IF ds = <<>> THEN acc
                        ELSE DigitsValue(Tail(ds), acc * 10 + DigitValue(Head(ds)))
parseInt(ts) ==
    LET t == TrimStart(ts)
        neg == t /= <<>> /\ Head(t) = "-"
        body == IF t /= <<>> /\ Head(t) \in {"-", "+"} THEN Tail(t) ELSE t
        run == DigitRun(body)
    IN IF run = <<>> THEN [nan |-> TRUE, value |-> 0]
       ELSE [nan |-> FALSE,
             value |-> IF neg THEN 0 - DigitsValue(run, 0) ELSE DigitsValue(run, 0)]

PowershellFalse == -999
UnparsableExit == -998

parseExitCodeFalseAsUnparsable(exit) ==
    IF Join(exit) = "True" THEN 0
    ELSE IF parseInt(exit).nan THEN UnparsableExit
    ELSE parseInt(exit).value

parseExitCode(exit) ==
    IF Join(exit) = "True" THEN 0
    ELSE IF Join(exit) = "False" THEN PowershellFalse
    ELSE IF parseInt(exit).nan THEN UnparsableExit
    ELSE parseInt(exit).value

\* What `echo "${endMarker}$?"` prints: the exit code on a POSIX shell, True / False
\* on PowerShell.
ExitText(shell, code) ==
    IF shell = "powershell"
       THEN (IF code = 0 THEN <<"Tr", "ue">> ELSE <<"Fal", "se">>)
       ELSE Digits(code)

\* The pty echoes the typed input `${command}\recho "${endMarker}$?"\r`, then carries
\* the command's output and the line printed by the trailer.
CommandText == "uv pip install"
InputEcho == <<CommandText, CRLF, "echo \"">> \o endMarker \o <<"$?\"", CRLF>>
CommandOutputs == { <<>>,
                    <<"Resolved 3 packages", CRLF>>,
                    <<"ESC[32m", "Resolved 3 packages", "ESC[0m", CRLF, "ESC[K">> }
PtyOutput(shell, code, out) ==
    InputEcho \o out \o endMarker \o ExitText(shell, code) \o <<CRLF>>

Shells == {"posix", "powershell"}
CommandExitCodes == {0, 1, 127}

InitPtyIdle ==
    /\ ptyShell = "posix"
    /\ ptyCmdExit = 0
    /\ ptyStream = <<>>
    /\ ptyPos = 0
    /\ ptyReader = FALSE
    /\ ptyResolved = FALSE
    /\ ptyExitCode = NoCode
    /\ ptySink = <<>>
    /\ ptyAlive = TRUE

InitPty ==
    /\ ptyShell \in Shells
    /\ ptyCmdExit \in CommandExitCodes
    /\ ptyStream = <<>>
    /\ ptyPos = 0
    /\ ptyReader = FALSE
    /\ ptyResolved = FALSE
    /\ ptyExitCode = NoCode
    /\ ptySink = <<>>
    /\ ptyAlive = TRUE

\* runPtyCommandAsync: register the onData listener and write the input to the pty.
PtyRun ==
    /\ ptyAlive
    /\ ~ptyReader
    /\ ptyStream = <<>>
    /\ ptyReader' = TRUE
    /\ \E out \in CommandOutputs : ptyStream' = PtyOutput(ptyShell, ptyCmdExit, out)
    /\ UNCHANGED <<ptyShell, ptyCmdExit, ptyPos, ptyResolved, ptyExitCode, ptySink,
                   ptyAlive>>
    /\ UNCHANGED nonPtyVars

PtyDataChecksBeforeForwarding(n) ==
    /\ ptyPos + n <= Len(ptyStream)
    /\ ptyPos' = ptyPos + n
    /\ LET data == SubSeq(ptyStream, ptyPos + 1, ptyPos + n)
           exit == hasExited(data, endMarker)
       IN IF ptyReader
             THEN IF exit.found /\ exit.text /= <<>>
                     THEN /\ ptyReader' = FALSE
                          /\ ptyResolved' = TRUE
                          /\ ptyExitCode' = parseExitCode(exit.text)
                          /\ UNCHANGED ptySink
                     ELSE /\ ptySink' = ptySink \o data
                          /\ UNCHANGED <<ptyReader, ptyResolved, ptyExitCode>>
             ELSE UNCHANGED <<ptySink, ptyReader, ptyResolved, ptyExitCode>>
    /\ UNCHANGED <<ptyShell, ptyCmdExit, ptyStream, ptyAlive>>
    /\ UNCHANGED nonPtyVars

\* The pty emits its next n tokens as one chunk; the onData listener, while registered,
\* forwards the chunk to the sink, looks for the marker and resolves when it finds
\* a non-empty exit text.
PtyData(n) ==
    /\ ptyPos + n <= Len(ptyStream)
    /\ ptyPos' = ptyPos + n
    /\ LET data == SubSeq(ptyStream, ptyPos + 1, ptyPos + n)
           exit == hasExited(data, endMarker)
       IN IF ptyReader
             THEN /\ ptySink' = ptySink \o data
                  /\ IF exit.found /\ exit.text /= <<>>
                        THEN /\ ptyReader' = FALSE
                             /\ ptyResolved' = TRUE
                             /\ ptyExitCode' = parseExitCode(exit.text)
                        ELSE UNCHANGED <<ptyReader, ptyResolved, ptyExitCode>>
             ELSE UNCHANGED <<ptySink, ptyReader, ptyResolved, ptyExitCode>>
    /\ UNCHANGED <<ptyShell, ptyCmdExit, ptyStream, ptyAlive>>
    /\ UNCHANGED nonPtyVars

PtyDiesAndSettles ==
    /\ ptyAlive
    /\ ptyAlive' = FALSE
    /\ \E keep \in ptyPos..Len(ptyStream) : ptyStream' = SubSeq(ptyStream, 1, keep)
    /\ IF ptyReader
          THEN /\ ptyReader' = FALSE
               /\ ptyResolved' = TRUE
               /\ ptyExitCode' = UnparsableExit
          ELSE UNCHANGED <<ptyReader, ptyResolved, ptyExitCode>>
    /\ UNCHANGED <<ptyShell, ptyCmdExit, ptyPos, ptySink>>
    /\ UNCHANGED nonPtyVars

\* The shell behind the pty exits (killed, crashed, or the typed command was `exit`):
\* whatever it had not printed yet is never printed.  uvPtyInstance registers no
\* onExit listener and runPtyCommandAsync arms no timer, so nothing else changes.
PtyDies ==
    /\ ptyAlive
    /\ ptyAlive' = FALSE
    /\ \E keep \in ptyPos..Len(ptyStream) : ptyStream' = SubSeq(ptyStream, 1, keep)
    /\ UNCHANGED <<ptyShell, ptyCmdExit, ptyPos, ptyReader, ptyResolved, ptyExitCode,
                   ptySink>>
    /\ UNCHANGED nonPtyVars

NextPty ==
    \/ PtyRun
    \/ \E n \in 1..Len(ptyStream) : PtyData(n)
    \/ PtyDies

\* ------------------------------------------------------------ parseExitCode
\* The texts tried: the PowerShell words (whole and in pieces), digits, a sign, a
\* letter and a blank, in every order up to MaxExitLen tokens.
ExitAlphabet == {"Tr", "ue", "Fal", "se", "0", "1", "7", "-", "x", " "}
ExitTexts == UNION {[1..n -> ExitAlphabet] : n \in 0..MaxExitLen}

InitParseIdle ==
    /\ parseExit = <<>>
    /\ parseDone = FALSE
    /\ parseCode = NoCode

InitParse ==
    /\ parseExit \in ExitTexts
    /\ parseDone = FALSE
    /\ parseCode = NoCode

ParseExitCode ==
    /\ ~parseDone
    /\ parseDone' = TRUE
    /\ parseCode' = parseExitCode(parseExit)
    /\ UNCHANGED parseExit
    /\ UNCHANGED nonParseVars

NextParse == ParseExitCode

\* ------------------------------------------------- VirtualEnvironment operations
\* enum TorchMirrorUrl (src/constants.ts): three distinct, non-empty URLs; only the
\* nightly one contains the word 'nightly'.
TorchMirrorDefault == "https://pypi.org/simple/"
TorchMirrorCuda == "https://download.pytorch.org/whl/cu128"
TorchMirrorNightlyCpu == "https://download.pytorch.org/whl/nightly/cpu"
CustomMirror == "https://mirror.example/whl"
Undefined == "undefined"

Devices == {"cpu", "nvidia", "mps", "unsupported"}
DeviceArgs == Devices \cup {Undefined}
MirrorArgs == {Undefined, "", TorchMirrorDefault, TorchMirrorCuda, TorchMirrorNightlyCpu,
               CustomMirror}
Platforms == {"darwin", "win32", "linux"}

getDefaultTorchMirror(device) ==
    CASE device = "mps" -> TorchMirrorNightlyCpu
      [] device = "nvidia" -> TorchMirrorCuda
      [] OTHER -> TorchMirrorDefault

fixDeviceMirrorMismatchKeepsDefault(device, mirror) == mirror

fixDeviceMirrorMismatch(device, mirror) ==
    IF mirror = TorchMirrorDefault /\ device = "nvidia" THEN TorchMirrorCuda
    ELSE IF mirror = TorchMirrorDefault /\ device = "mps" THEN TorchMirrorNightlyCpu
    ELSE mirror

\* `this.torchMirror || getDefaultTorchMirror(this.selectedDevice)`: undefined and ''
\* are falsy.
Falsy(v) == v \in {Undefined, ""}
torchIndexUrl == IF Falsy(torchMirror) THEN getDefaultTorchMirror(selectedDevice)
                 ELSE torchMirror
includesNightly(url) == url = TorchMirrorNightlyCpu

\* The commands an operation awaits.  Those in UvSteps go through runUvCommandAsync,
\* which reads uvPtyInstance and so spawns the pty when there is none; "ensurepip"
\* is a child process of its own and "exists" is a file-system probe.
UvSteps == {"venv", "compiled", "torch", "core", "manager", "cacheClean"}
Operations == {"create", "createVenv", "upgradePip", "reinstallRequirements",
               "installPytorch", "installComfyUIRequirements",
               "installComfyUIManagerRequirements", "clearUvCache", "updatePackages"}
VenvExitCodes == {0, 1}

Entry(cmd, code) ==
    [cmd |-> cmd, code |-> code, attempt |-> veAttempt,
     indexUrl |-> IF cmd = "torch" THEN torchIndexUrl ELSE Undefined,
     prerelease |-> cmd = "torch" /\ includesNightly(torchIndexUrl)]

\* The operation goes on to await the next command.
Await(step) ==
    /\ veStep' = step
    /\ uvPty' = IF step \in UvSteps THEN "alive" ELSE uvPty
    /\ UNCHANGED <<veOp, veResult>>

\* The operation ends.  teardown: it ends through create()'s finally block or through
\* #using, which kill the pty and clear uvPty when there is one.
Finish(result, teardown) ==
    /\ veStep' = "none"
    /\ veResult' = result
    /\ uvPty' = IF teardown THEN Undefined ELSE uvPty
    /\ UNCHANGED veOp

InitVenvIdle ==
    /\ platform = "linux"
    /\ deviceArg = Undefined
    /\ mirrorArg = Undefined
    /\ selectedDevice = "cpu"
    /\ torchMirror = Undefined
    /\ venvExists = FALSE
    /\ uvPty = Undefined
    /\ veOp = "none"
    /\ veStep = "none"
    /\ veAttempt = 0
    /\ veResult = "none"
    /\ veLog = <<>>
    /\ vePrevOp = "none"
    /\ vePrevResult = "none"
    /\ veCalls = 0

\* The state after `new VirtualEnvironment(basePath, {selectedDevice, torchMirror})`.
InitVenv ==
    /\ platform \in Platforms
    /\ deviceArg \in DeviceArgs
    /\ mirrorArg \in MirrorArgs
    /\ selectedDevice = (IF deviceArg = Undefined THEN "cpu" ELSE deviceArg)
    /\ torchMirror = fixDeviceMirrorMismatch(deviceArg, mirrorArg)
    /\ venvExists \in BOOLEAN
    /\ uvPty = Undefined
    /\ veOp = "none"
    /\ veStep = "none"
    /\ veAttempt = 0
    /\ veResult = "none"
    /\ veLog = <<>>
    /\ vePrevOp = "none"
    /\ vePrevResult = "none"
    /\ veCalls = 0

Idle == veStep = "none"

\* What every call does first: the previous call becomes history.
Called(op) ==
    /\ Idle
    /\ veCalls < MaxCalls
    /\ veCalls' = veCalls + 1
    /\ veOp' = op
    /\ vePrevOp' = veOp
    /\ vePrevResult' = veResult
    /\ veLog' = <<>>
    /\ UNCHANGED <<venvConfig, venvExists>>
    /\ UNCHANGED nonVenvVars

\* A called operation that goes on to await its first command.
Start(op, step, attempt) ==
    /\ Called(op)
    /\ veStep' = step
    /\ veAttempt' = attempt
    /\ veResult' = "pending"
    /\ uvPty' = IF step \in UvSteps THEN "alive" ELSE uvPty

CallCreateChecksExistsFirst ==
    Start("create", "exists", 0)

\* create() up to its first await: nothing to do for an unsupported device, else the
\* exists() probe.
CallCreate ==
    IF selectedDevice = "unsupported"
       THEN /\ Called("create")
            /\ veStep' = "none"
            /\ veAttempt' = 0
            /\ veResult' = "returned"
            /\ uvPty' = Undefined
       ELSE Start("create", "exists", 0)

CallCreateVenv == Start("createVenv", "venv", 0)
CallUpgradePip == Start("upgradePip", "ensurepip", 0)
CallReinstallRequirements == Start("reinstallRequirements", "torch", 1)
CallInstallPytorch == Start("installPytorch", "torch", 0)
CallInstallComfyUIRequirements == Start("installComfyUIRequirements", "core", 0)
CallInstallComfyUIManagerRequirements ==
    Start("installComfyUIManagerRequirements", "manager", 0)
CallClearUvCache == Start("clearUvCache", "cacheClean", 0)
CallUpdatePackages == Start("updatePackages", "core", 0)

\* What every completion of a command leaves alone.
Frame ==
    /\ UNCHANGED <<venvConfig, vePrevOp, vePrevResult, veCalls>>
    /\ UNCHANGED nonVenvVars

ExistsDoneIgnored ==
    /\ veStep = "exists"
    /\ Await("venv")
    /\ UNCHANGED <<venvExists, veAttempt, veLog>>
    /\ Frame

\* createEnvironment after `await this.exists()`.
ExistsDone ==
    /\ veStep = "exists"
    /\ IF venvExists THEN Finish("returned", TRUE) ELSE Await("venv")
    /\ UNCHANGED <<venvExists, veAttempt, veLog>>
    /\ Frame

VenvDoneIgnoresExitCode(code) ==
    /\ veStep = "venv"
    /\ veLog' = Append(veLog, Entry("venv", code))
    /\ IF code = 0 THEN venvExists' = TRUE ELSE venvExists' \in BOOLEAN
    /\ CASE veOp = "create" -> Await("ensurepip")
         [] veOp = "createVenv" ->
              Finish(IF code = 0 THEN "returnedTrue" ELSE "returnedFalse", TRUE)
         [] veOp = "reinstallRequirements" ->
              IF code = 0 THEN /\ veStep' = "ensurepip"
                               /\ uvPty' = Undefined
                               /\ UNCHANGED <<veOp, veResult>>
              ELSE Finish("returnedFalse", TRUE)
    /\ UNCHANGED veAttempt
    /\ Frame

\* `uv venv` has exited: on success the directory exists; on failure it may or may
\* not have been left behind.
VenvDone(code) ==
    /\ veStep = "venv"
    /\ veLog' = Append(veLog, Entry("venv", code))
    /\ IF code = 0 THEN venvExists' = TRUE ELSE venvExists' \in BOOLEAN
    /\ CASE veOp = "create" ->
              IF code = 0 THEN Await("ensurepip") ELSE Finish("threw", TRUE)
         [] veOp = "createVenv" ->
              Finish(IF code = 0 THEN "returnedTrue" ELSE "returnedFalse", TRUE)
         [] veOp = "reinstallRequirements" ->
              IF code = 0 THEN /\ veStep' = "ensurepip"
                               /\ uvPty' = Undefined
                               /\ UNCHANGED <<veOp, veResult>>
              ELSE Finish("returnedFalse", TRUE)
    /\ UNCHANGED veAttempt
    /\ Frame

EnsurePipDoneRetriesAnyway(code) ==
    /\ veStep = "ensurepip"
    /\ veLog' = Append(veLog, Entry("ensurepip", code))
    /\ CASE veOp = "create" ->
              /\ IF code /= 0 THEN Finish("threw", TRUE)
                 ELSE IF platform = "darwin" THEN Await("torch")
                 ELSE Await("compiled")
              /\ UNCHANGED veAttempt
         [] veOp = "upgradePip" ->
              /\ Finish(IF code = 0 THEN "returnedTrue" ELSE "returnedFalse", TRUE)
              /\ UNCHANGED veAttempt
         [] veOp = "reinstallRequirements" ->
              /\ Await("torch")
              /\ veAttempt' = 2
    /\ UNCHANGED venvExists
    /\ Frame

\* `python -m ensurepip --upgrade` has closed.  In create() installRequirements
\* follows: manualInstall at once on darwin, the compiled lockfile elsewhere.
EnsurePipDone(code) ==
    /\ veStep = "ensurepip"
    /\ veLog' = Append(veLog, Entry("ensurepip", code))
    /\ CASE veOp = "create" ->
              /\ IF code /= 0 THEN Finish("threw", TRUE)
                 ELSE IF platform = "darwin" THEN Await("torch")
                 ELSE Await("compiled")
              /\ UNCHANGED veAttempt
         [] veOp = "upgradePip" ->
              /\ Finish(IF code = 0 THEN "returnedTrue" ELSE "returnedFalse", TRUE)
              /\ UNCHANGED veAttempt
         [] veOp = "reinstallRequirements" ->
              IF code = 0 THEN /\ Await("torch")
                               /\ veAttempt' = 2
              ELSE /\ Finish("returnedFalse", TRUE)
                   /\ UNCHANGED veAttempt
    /\ UNCHANGED venvExists
    /\ Frame

CompiledDoneAlwaysManual(code) ==
    /\ veStep = "compiled"
    /\ veLog' = Append(veLog, Entry("compiled", code))
    /\ Await("torch")
    /\ UNCHANGED <<venvExists, veAttempt>>
    /\ Frame

\* installRequirements after the compiled-lockfile install.
CompiledDone(code) ==
    /\ veStep = "compiled"
    /\ veLog' = Append(veLog, Entry("compiled", code))
    /\ IF code /= 0 THEN Await("torch") ELSE Finish("returned", TRUE)
    /\ UNCHANGED <<venvExists, veAttempt>>
    /\ Frame

\* After a failed manualInstall: create() rethrows; the first attempt of
\* reinstallRequirements goes on to createVenv (its #using has torn the pty down, and
\* `uv venv` spawns a new one); the second attempt rethrows.
ManualInstallFailed ==
    CASE veOp = "create" -> Finish("threw", TRUE)
      [] veOp = "reinstallRequirements" ->
           IF veAttempt = 1 THEN Await("venv") ELSE Finish("threw", TRUE)

TorchDoneIgnoresExitCode(code) ==
    /\ veStep = "torch"
    /\ veLog' = Append(veLog, Entry("torch", code))
    /\ IF veOp = "installPytorch"
          THEN Finish(IF code = 0 THEN "returned" ELSE "threw", FALSE)
          ELSE Await("core")
    /\ UNCHANGED <<venvExists, veAttempt>>
    /\ Frame

\* installPytorch after its uv command.
TorchDone(code) ==
    /\ veStep = "torch"
    /\ veLog' = Append(veLog, Entry("torch", code))
    /\ IF veOp = "installPytorch"
          THEN Finish(IF code = 0 THEN "returned" ELSE "threw", FALSE)
          ELSE IF code = 0 THEN Await("core") ELSE ManualInstallFailed
    /\ UNCHANGED <<venvExists, veAttempt>>
    /\ Frame

\* installComfyUIRequirements after its uv command.  updatePackages catches the
\* error and returns; neither it nor the method itself tears the pty down.
CoreDone(code) ==
    /\ veStep = "core"
    /\ veLog' = Append(veLog, Entry("core", code))
    /\ CASE veOp = "installComfyUIRequirements" ->
              Finish(IF code = 0 THEN "returned" ELSE "threw", FALSE)
         [] veOp = "updatePackages" ->
              IF code = 0 THEN Await("manager") ELSE Finish("returned", FALSE)
         [] OTHER ->
              IF code = 0 THEN Await("manager") ELSE ManualInstallFailed
    /\ UNCHANGED <<venvExists, veAttempt>>
    /\ Frame

\* installComfyUIManagerRequirements after its uv command.
ManagerDone(code) ==
    /\ veStep = "manager"
    /\ veLog' = Append(veLog, Entry("manager", code))
    /\ CASE veOp = "installComfyUIManagerRequirements" ->
              Finish(IF code = 0 THEN "returned" ELSE "threw", FALSE)
         [] veOp = "updatePackages" -> Finish("returned", FALSE)
         [] veOp = "create" ->
              IF code = 0 THEN Finish("returned", TRUE) ELSE ManualInstallFailed
         [] veOp = "reinstallRequirements" ->
              IF code = 0 THEN Finish("returnedTrue", TRUE) ELSE ManualInstallFailed
    /\ UNCHANGED <<venvExists, veAttempt>>
    /\ Frame

\* clearUvCache after `uv cache clean`.
CacheCleanDone(code) ==
    /\ veStep = "cacheClean"
    /\ veLog' = Append(veLog, Entry("cacheClean", code))
    /\ Finish(IF code = 0 THEN "returnedTrue" ELSE "returnedFalse", FALSE)
    /\ UNCHANGED <<venvExists, veAttempt>>
    /\ Frame

NextVenv ==
    \/ CallCreate
    \/ CallCreateVenv
    \/ CallUpgradePip
    \/ CallReinstallRequirements
    \/ CallInstallPytorch
    \/ CallInstallComfyUIRequirements
    \/ CallInstallComfyUIManagerRequirements
    \/ CallClearUvCache
    \/ CallUpdatePackages
    \/ ExistsDone
    \/ \E code \in VenvExitCodes : VenvDone(code)
    \/ \E code \in VenvExitCodes : EnsurePipDone(code)
    \/ \E code \in VenvExitCodes : CompiledDone(code)
    \/ \E code \in VenvExitCodes : TorchDone(code)
    \/ \E code \in VenvExitCodes : CoreDone(code)
    \/ \E code \in VenvExitCodes : ManagerDone(code)
    \/ \E code \in VenvExitCodes : CacheCleanDone(code)

\* ---------------------------------------------------------- hasRequirements
\* A dry-run output is a sequence of tokens: whole lines, each followed by "\n"
\* (the last one possibly not).
NoChangesLine == "Would make no changes"
ResolvedLine == "Resolved 2 packages in 1ms"
InstallLine == "Would install 1 package"
AddAiohttp == " + aiohttp==3.11.8"
AddToml == " + toml==0.10.2"
AddNumpy == " + numpy==2.1.0"
RemoveNumpy == " - numpy==2.0.0"
RemoveAvro == " - avro==1.12.0"

\* Lines matching /\bWould install [1-3] packages?/ up to their end.
WouldInstallLines == {InstallLine}
\* Lines matching /^\s*\+ /.
AddLines == {AddAiohttp, AddToml, AddNumpy}
\* Lines matching /^\s*\+ (aiohttp|av|yarl|...|python-dotenv)==/.
CoreAddLines == {AddAiohttp}
\* Lines matching /\+ (toml|uv|chardet)==[\d.]+/ up to their end.
ManagerAddLines == {AddToml}
\* Lines matching /^\s*- (?!aiohttp|av|yarl|...|python-dotenv).*==/.  The lookahead
\* only looks at how the name begins: 'avro' begins with 'av' and is not matched.
UnknownRemovalLines == {RemoveNumpy}

CoreLines == {ResolvedLine, NoChangesLine, AddAiohttp, AddNumpy, RemoveNumpy, RemoveAvro}
ManagerLines == {ResolvedLine, NoChangesLine, InstallLine, AddToml, AddNumpy, RemoveNumpy}

RECURSIVE Render(_, _)
Render(lines, newline) ==
    IF lines = <<>> THEN <<>>
    ELSE IF Len(lines) = 1 THEN (IF newline THEN <<lines[1], LF>> ELSE <<lines[1]>>)
    ELSE <<Head(lines), LF>> \o Render(Tail(lines), newline)

Outputs(alphabet) ==
    {Render(lines, newline) :
        lines \in UNION {[1..n -> alphabet] : n \in 0..MaxOutputLines},
        newline \in BOOLEAN}

\* output.search(/\bWould make no changes\s+$/) !== -1
hasAllPackages(output) ==
    LET t == TrimEnd(output)
    IN /\ t /= <<>>
       /\ t[Len(t)] = NoChangesLine
       /\ Len(t) < Len(output)

\* /\bWould install [1-3] packages?(\s+\+ (toml|uv|chardet)==[\d.]+){1,3}\s*$/
isManagerUpgrade(output) ==
    LET t == TrimEnd(output)
    IN \E i \in 1..Len(t) :
          /\ t[i] \in WouldInstallLines
          /\ (Len(t) - i) \div 2 \in 1..3
          /\ \A j \in (i + 1)..Len(t) :
                IF (j - i) % 2 = 1 THEN t[j] \in Whitespace ELSE t[j] \in ManagerAddLines

\* output.split('\n')
IsLine(t) == t /= LF
split(output) == SelectSeq(output, IsLine)

isCoreUpgrade(output) ==
    LET lines == split(output)
        adds == {i \in 1..Len(lines) : lines[i] \in AddLines}
    IN /\ \A i \in 1..Len(lines) : lines[i] \notin UnknownRemovalLines
       /\ \A i \in adds : lines[i] \in CoreAddLines
       /\ adds /= {}

hasRequirementsUpgradeBeforeOk(core, manager) ==
    LET coreOk == hasAllPackages(core)
        managerOk == hasAllPackages(manager)
        upgradeCore == isCoreUpgrade(core)
        upgradeManager == isManagerUpgrade(manager)
    IN IF \/ (managerOk /\ upgradeCore)
          \/ (coreOk /\ upgradeManager)
          \/ (upgradeCore /\ upgradeManager)
          THEN "package-upgrade"
       ELSE IF coreOk /\ managerOk THEN "OK" ELSE "error"

hasRequirementsEitherOk(core, manager) ==
    LET coreOk == hasAllPackages(core)
        managerOk == hasAllPackages(manager)
        upgradeCore == ~coreOk /\ isCoreUpgrade(core)
        upgradeManager == ~managerOk /\ isManagerUpgrade(manager)
    IN IF \/ (managerOk /\ upgradeCore)
          \/ (coreOk /\ upgradeManager)
          \/ (upgradeCore /\ upgradeManager)
          THEN "package-upgrade"
       ELSE IF coreOk \/ managerOk THEN "OK" ELSE "error"

\* hasRequirements once both dry runs have delivered their output.
hasRequirements(core, manager) ==
    LET coreOk == hasAllPackages(core)
        managerOk == hasAllPackages(manager)
        upgradeCore == ~coreOk /\ isCoreUpgrade(core)
        upgradeManager == ~managerOk /\ isManagerUpgrade(manager)
    IN IF \/ (managerOk /\ upgradeCore)
          \/ (coreOk /\ upgradeManager)
          \/ (upgradeCore /\ upgradeManager)
          THEN "package-upgrade"
       ELSE IF coreOk /\ managerOk THEN "OK" ELSE "error"

InitReqIdle ==
    /\ coreOutput = <<>>
    /\ managerOutput = <<>>
    /\ reqResult = "none"

InitReq ==
    /\ coreOutput \in Outputs(CoreLines)
    /\ managerOutput \in Outputs(ManagerLines)
    /\ reqResult = "none"

\* checkRequirements throws: uv exited non-zero (any output), or its output was empty.
CheckRequirementsThrows ==
    /\ reqResult = "none"
    /\ reqResult' = "threw"
    /\ UNCHANGED <<coreOutput, managerOutput>>
    /\ UNCHANGED nonReqVars

\* Both dry runs exited 0 with some output.
HasRequirements ==
    /\ reqResult = "none"
    /\ coreOutput /= <<>>
    /\ managerOutput /= <<>>
    /\ reqResult' = hasRequirements(coreOutput, managerOutput)
    /\ UNCHANGED <<coreOutput, managerOutput>>
    /\ UNCHANGED nonReqVars

NextReq ==
    \/ CheckRequirementsThrows
    \/ HasRequirements

\* -------------------------------------------- InstallationManager.ensureInstalled
\* ComfyInstallation and Troubleshooting are collaborators: validate() fills the
\* report, hasIssues is "some entry is 'error'", isValid is its negation and
\* needsRequirementsUpdate is the 'warning' on upgradePackages.
Checks == {"venvDirectory", "pythonPackages", "upgradePackages"}
Reports == [Checks -> {"OK", "warning", "error"}]
NoReport == [c \in Checks |-> "none"]
hasIssues == \E c \in Checks : imReport[c] = "error"
isValid == ~hasIssues
needsRequirementsUpdate == imReport["upgradePackages"] = "warning"

\* The awaits of freshInstall, in order: validateHardware, loadPage, the git check,
\* the install options, installWizard.install, virtualEnvironment.create,
\* migrateCustomNodes.
FreshSteps == <<"hardware", "page", "git", "options", "wizard", "create", "migrate">>
\* Those whose rejection leaves freshInstall (migrateCustomNodes catches its own).
Throwing == {"page", "wizard", "create"}
StepIndex(step) == CHOOSE i \in 1..Len(FreshSteps) : FreshSteps[i] = step

InitInstallIdle ==
    /\ imConfig = "none"
    /\ imState = "none"
    /\ imPc = "idle"
    /\ imLog = <<>>
    /\ imReport = NoReport
    /\ imRechecks = 0

InitInstall ==
    /\ imConfig \in {"none", "started", "installed", "upgraded"}
    /\ imState = imConfig
    /\ imPc = "idle"
    /\ imLog = <<>>
    /\ imReport = NoReport
    /\ imRechecks = 0

\* freshInstall up to its first await.
freshInstall ==
    /\ imPc' = FreshSteps[1]
    /\ imState' = "started"
    /\ UNCHANGED <<imLog, imReport>>

\* validateInstallation up to `await installation.validate()`.
validateInstallation ==
    /\ imPc' = "validate"
    /\ UNCHANGED <<imState, imLog, imReport>>

EnsureInstalledValidatesStarted ==
    /\ imPc = "idle"
    /\ IF imConfig = "none" THEN freshInstall ELSE validateInstallation
    /\ UNCHANGED <<imConfig, imRechecks>>
    /\ UNCHANGED nonInstallVars

\* ensureInstalled: fromConfig(), then the dispatch on the installation and its state.
EnsureInstalled ==
    /\ imPc = "idle"
    /\ IF imConfig \in {"none", "started"} THEN freshInstall ELSE validateInstallation
    /\ UNCHANGED <<imConfig, imRechecks>>
    /\ UNCHANGED nonInstallVars

FreshStepDoneMarksInstalledAfterCreate(ok) ==
    /\ imPc \in {FreshSteps[i] : i \in 1..Len(FreshSteps)}
    /\ (~ok) => imPc \in Throwing
    /\ imLog' = Append(imLog, imPc)
    /\ imState' = IF imPc \in {"create", "migrate"} THEN "installed" ELSE imState
    /\ imPc' = IF ~ok THEN "rejected"
               ELSE IF StepIndex(imPc) < Len(FreshSteps) THEN FreshSteps[StepIndex(imPc) + 1]
               ELSE "resolved"
    /\ UNCHANGED <<imConfig, imReport, imRechecks>>
    /\ UNCHANGED nonInstallVars

\* The awaited step of freshInstall settles; after the last one the state becomes
\* 'installed' and the installation is returned.
FreshStepDone(ok) ==
    /\ imPc \in {FreshSteps[i] : i \in 1..Len(FreshSteps)}
    /\ (~ok) => imPc \in Throwing
    /\ imLog' = Append(imLog, imPc)
    /\ IF ~ok THEN /\ imPc' = "rejected"
                   /\ UNCHANGED imState
       ELSE IF StepIndex(imPc) < Len(FreshSteps)
               THEN /\ imPc' = FreshSteps[StepIndex(imPc) + 1]
                    /\ UNCHANGED imState
       ELSE /\ imPc' = "resolved"
            /\ imState' = "installed"
    /\ UNCHANGED <<imConfig, imReport, imRechecks>>
    /\ UNCHANGED nonInstallVars

\* validateInstallation after the first validate(): upgradeConfig for 'upgraded',
\* then updatePackages if flagged, else the hasIssues test.
ValidateDone(report) ==
    /\ imPc = "validate"
    /\ imReport' = report
    /\ imLog' = Append(imLog, "validate")
    /\ imState' = "installed"
    /\ imPc' = IF report["upgradePackages"] = "warning" THEN "update"
               ELSE IF \E c \in Checks : report[c] = "error" THEN "resolve"
               ELSE "resolved"
    /\ UNCHANGED <<imConfig, imRechecks>>
    /\ UNCHANGED nonInstallVars

\* updatePackages ends: either both installs ran and validate() refreshed the report,
\* or an error was caught and the report is the one from before.
UpdatePackagesDone(ok, report) ==
    /\ imPc = "update"
    /\ imReport' = IF ok THEN report ELSE imReport
    /\ imLog' = Append(imLog, IF ok THEN "update" ELSE "updateFailed")
    /\ imPc' = IF \E c \in Checks : imReport'[c] = "error" THEN "resolve" ELSE "resolved"
    /\ UNCHANGED <<imConfig, imState, imRechecks>>
    /\ UNCHANGED nonInstallVars

\* The loop has no counter: the first MaxRechecks rechecks are counted and logged,
\* later ones are not.
Counted ==
    IF imRechecks < MaxRechecks
       THEN imRechecks' = imRechecks + 1 /\ imLog' = Append(imLog, "resolve")
       ELSE UNCHANGED <<imRechecks, imLog>>

\* While resolveIssues waits, a task of the troubleshooting page validates again.
TroubleshootingValidates(report) ==
    /\ imPc = "resolve"
    /\ imReport' = report
    /\ UNCHANGED <<imConfig, imState, imPc, imLog, imRechecks>>
    /\ UNCHANGED nonInstallVars

OnInstallFixNeverLeaves(report) ==
    /\ imPc = "resolve"
    /\ Counted
    /\ imReport' = IF isValid THEN imReport ELSE report
    /\ UNCHANGED <<imConfig, imState, imPc>>
    /\ UNCHANGED nonInstallVars

OnInstallFixAlwaysValidates(report) ==
    /\ imPc = "resolve"
    /\ Counted
    /\ imReport' = report
    /\ imPc' = IF \E c \in Checks : imReport'[c] = "error" THEN "resolve" ELSE "resolved"
    /\ UNCHANGED <<imConfig, imState>>
    /\ UNCHANGED nonInstallVars

OnInstallFixAlwaysResolvesLoop(report) ==
    /\ imPc = "resolve"
    /\ Counted
    /\ imReport' = IF isValid THEN imReport ELSE report
    /\ imPc' = "resolved"
    /\ UNCHANGED <<imConfig, imState>>
    /\ UNCHANGED nonInstallVars

\* resolveIssues: the troubleshooting page calls onInstallFix, which validates again
\* unless the installation is valid and resolves with isValid; the while loop of
\* validateInstallation goes round again on false.
OnInstallFix(report) ==
    /\ imPc = "resolve"
    /\ Counted
    /\ imReport' = IF isValid THEN imReport ELSE report
    /\ imPc' = IF \E c \in Checks : imReport'[c] = "error" THEN "resolve" ELSE "resolved"
    /\ UNCHANGED <<imConfig, imState>>
    /\ UNCHANGED nonInstallVars

NextInstall ==
    \/ EnsureInstalled
    \/ \E ok \in BOOLEAN : FreshStepDone(ok)
    \/ \E report \in Reports : ValidateDone(report)
    \/ \E ok \in BOOLEAN, report \in Reports : UpdatePackagesDone(ok, report)
    \/ \E report \in Reports : OnInstallFix(report)
    \/ \E report \in Reports : TroubleshootingValidates(report)

\* ------------------------------------------------------------ ComfySettings
Instances == {1, 2}
SettingValues == {"default", "changed"}
DefaultSetting == "default"
NoCall == [op |-> "none", inst |-> 0, threw |-> FALSE, value |-> "none"]

InitSettingsIdle ==
    /\ csSettings = [i \in Instances |-> "unloaded"]
    /\ csFile = "absent"
    /\ csWriting = [i \in Instances |-> "none"]
    /\ csLast = NoCall
    /\ csCalls = 0

InitSettings ==
    /\ csSettings = [i \in Instances |-> "unloaded"]
    /\ csFile \in SettingValues \cup {"absent"}
    /\ csWriting = [i \in Instances |-> "none"]
    /\ csLast = NoCall
    /\ csCalls = 0

Call(op, i, threw, value) ==
    /\ csCalls < MaxSettingsCalls
    /\ csCalls' = csCalls + 1
    /\ csLast' = [op |-> op, inst |-> i, threw |-> threw, value |-> value]

\* static load(): a new instance starts from the defaults and merges the file.
Load(i) ==
    /\ csSettings[i] = "unloaded"
    /\ Call("load", i, FALSE, "none")
    /\ csSettings' = [csSettings EXCEPT ![i] = IF csFile = "absent" THEN DefaultSetting
                                               ELSE csFile]
    /\ UNCHANGED <<csFile, csWriting>>
    /\ UNCHANGED nonSettingsVars

SetUnlocked(i, v) ==
    /\ csSettings[i] /= "unloaded"
    /\ Call("set", i, FALSE, v)
    /\ csSettings' = [csSettings EXCEPT ![i] = v]
    /\ UNCHANGED <<csFile, csWriting>>
    /\ UNCHANGED nonSettingsVars

\* set(key, value)
Set(i, v) ==
    /\ csSettings[i] /= "unloaded"
    /\ Call("set", i, writeLocked, v)
    /\ csSettings' = IF writeLocked THEN csSettings ELSE [csSettings EXCEPT ![i] = v]
    /\ UNCHANGED <<csFile, csWriting>>
    /\ UNCHANGED nonSettingsVars

\* get(key)
Get(i) ==
    /\ csSettings[i] /= "unloaded"
    /\ Call("get", i, FALSE, csSettings[i])
    /\ UNCHANGED <<csSettings, csFile, csWriting>>
    /\ UNCHANGED nonSettingsVars

\* saveSettings() up to `await fs.writeFile(...)`: the lock test and the text to write.
SaveSettings(i) ==
    /\ csSettings[i] /= "unloaded"
    /\ csWriting[i] = "none"
    /\ Call("save", i, writeLocked, "none")
    /\ csWriting' = IF writeLocked THEN csWriting
                    ELSE [csWriting EXCEPT ![i] = csSettings[i]]
    /\ UNCHANGED <<csSettings, csFile>>
    /\ UNCHANGED nonSettingsVars

\* The fs.writeFile of a saveSettings() settles: the file holds its text, or the write
\* failed and the error is rethrown.
WriteFileDone(i, ok) ==
    /\ csWriting[i] /= "none"
    /\ csFile' = IF ok THEN csWriting[i] ELSE csFile
    /\ csWriting' = [csWriting EXCEPT ![i] = "none"]
    /\ UNCHANGED <<csSettings, csLast, csCalls>>
    /\ UNCHANGED nonSettingsVars

\* ComfyServer.start() up to the spawn is the only caller of lockWrites().
NextSettings ==
    \/ \E i \in Instances : Load(i)
    \/ \E i \in Instances, v \in SettingValues : Set(i, v)
    \/ \E i \in Instances : Get(i)
    \/ \E i \in Instances : SaveSettings(i)
    \/ \E i \in Instances, ok \in BOOLEAN : WriteFileDone(i, ok)
    \/ \E a \in Attempts : StartCall(a)
    \/ \E a \in Attempts : StartConfigDone(a)
    \/ \E a \in Attempts : StartPreSpawnFail(a)
    \/ \E a \in Attempts : StartSpawn(a)

\* ------------------------------------------------- AppState and DesktopApp
Events == {"ipcRegistered", "loaded"}
Pages == {"undefined", "desktop-start", "welcome"}
NoAppCall == [fn |-> "none", threw |-> "none"]
AppStartError == "AppStartError"

appStateVars == <<initialized, ipcRegistered, loaded, isQuitting, onceListeners, emitted>>
runVars == <<daRun, daPc, daSent, daInstalled, daFailed, daServerCalls, daServerResolved,
             daServerSkipped, serverRunning>>

InitAppIdle ==
    /\ initialized = FALSE
    /\ ipcRegistered = FALSE
    /\ loaded = FALSE
    /\ isQuitting = FALSE
    /\ currentPage = "undefined"
    /\ onceListeners = {}
    /\ emitted = [e \in Events |-> 0]
    /\ appCall = NoAppCall
    /\ appCalls = 0
    /\ daRun = 0
    /\ daPc = "idle"
    /\ daSent = <<>>
    /\ daInstalled = FALSE
    /\ daFailed = "none"
    /\ daServerCalls = 0
    /\ daServerResolved = FALSE
    /\ daServerSkipped = FALSE
    /\ serverRunning = FALSE
    /\ useExternalServer = FALSE

InitApp ==
    /\ initialized = FALSE
    /\ ipcRegistered = FALSE
    /\ loaded = FALSE
    /\ isQuitting = FALSE
    /\ currentPage = "undefined"
    /\ onceListeners = {}
    /\ emitted = [e \in Events |-> 0]
    /\ appCall = NoAppCall
    /\ appCalls = 0
    /\ daRun = 0
    /\ daPc = "idle"
    /\ daSent = <<>>
    /\ daInstalled = FALSE
    /\ daFailed = "none"
    /\ daServerCalls = 0
    /\ daServerResolved = FALSE
    /\ daServerSkipped = FALSE
    /\ serverRunning = FALSE
    /\ useExternalServer \in BOOLEAN

\* EventEmitter.emit(e): every listener runs; a once() listener is removed first.
\* The listeners of initialize() set the flag of their event.
emit(e) ==
    /\ emitted' = [emitted EXCEPT ![e] = @ + 1]
    /\ onceListeners' = onceListeners \ {e}
    /\ ipcRegistered' = IF e = "ipcRegistered" /\ e \in onceListeners THEN TRUE
                        ELSE ipcRegistered
    /\ loaded' = IF e = "loaded" /\ e \in onceListeners THEN TRUE ELSE loaded

emitIpcRegistered ==
    IF ~ipcRegistered THEN emit("ipcRegistered")
    ELSE UNCHANGED <<emitted, onceListeners, ipcRegistered, loaded>>

emitLoadedUnguarded == emit("loaded")

emitLoaded ==
    IF ~loaded THEN emit("loaded")
    ELSE UNCHANGED <<emitted, onceListeners, ipcRegistered, loaded>>

AppCall(fn, threw) ==
    /\ appCalls < MaxAppCalls
    /\ appCalls' = appCalls + 1
    /\ appCall' = [fn |-> fn, threw |-> threw]

\* initializeAppState()
InitializeAppState ==
    /\ AppCall("initializeAppState", IF initialized THEN AppStartError ELSE "none")
    /\ IF initialized THEN UNCHANGED <<initialized, onceListeners>>
       ELSE /\ initialized' = TRUE
            /\ onceListeners' = Events
    /\ UNCHANGED <<ipcRegistered, loaded, isQuitting, currentPage, emitted>>
    /\ UNCHANGED runVars
    /\ UNCHANGED useExternalServer
    /\ UNCHANGED nonAppVars

\* useAppState()
UseAppState ==
    /\ AppCall("useAppState", IF initialized THEN "none" ELSE AppStartError)
    /\ UNCHANGED <<appStateVars, currentPage, runVars, useExternalServer>>
    /\ UNCHANGED nonAppVars

\* Some holder of the singleton calls emitIpcRegistered() / emitLoaded().
EmitIpcRegistered ==
    /\ initialized
    /\ AppCall("emitIpcRegistered", "none")
    /\ emitIpcRegistered
    /\ UNCHANGED <<initialized, isQuitting, currentPage, runVars, useExternalServer>>
    /\ UNCHANGED nonAppVars

EmitLoaded ==
    /\ initialized
    /\ AppCall("emitLoaded", "none")
    /\ emitLoaded
    /\ UNCHANGED <<initialized, isQuitting, currentPage, runVars, useExternalServer>>
    /\ UNCHANGED nonAppVars

\* app emits 'before-quit'.
BeforeQuit ==
    /\ initialized
    /\ ~isQuitting
    /\ isQuitting' = TRUE
    /\ UNCHANGED <<initialized, ipcRegistered, loaded, currentPage, onceListeners, emitted,
                   appCall, appCalls, runVars, useExternalServer>>
    /\ UNCHANGED nonAppVars

\* AppWindow.loadPage(page) while the installation manager is at work.
LoadPage(page) ==
    /\ daPc = "install"
    /\ page /= "undefined"
    /\ page /= currentPage
    /\ currentPage' = page
    /\ UNCHANGED <<appStateVars, appCall, appCalls, runVars, useExternalServer>>
    /\ UNCHANGED nonAppVars

Sent(status) == \E i \in 1..Len(daSent) : daSent[i] = status
Ended == {"idle", "resolved", "returned", "rejected"}

\* start() up to `await this.initializeInstallation()`; registerIpcHandlers emits first.
\* The page shown is the start screen or none yet.
StartRun ==
    /\ initialized
    /\ daPc \in Ended
    /\ daRun < MaxRuns
    /\ daRun' = daRun + 1
    /\ emitIpcRegistered
    /\ daPc' = "install"
    /\ daSent' = <<>>
    /\ daInstalled' = FALSE
    /\ daFailed' = "none"
    /\ daServerCalls' = 0
    /\ daServerResolved' = FALSE
    /\ daServerSkipped' = FALSE
    /\ currentPage' \in {currentPage, "desktop-start"}
    /\ UNCHANGED <<initialized, isQuitting, appCall, appCalls, serverRunning,
                   useExternalServer>>
    /\ UNCHANGED nonAppVars

Frozen == UNCHANGED <<appStateVars, currentPage, appCall, appCalls, daRun, useExternalServer>>

\* initializeInstallation: ensureInstalled() settles.
InstallDone(ok) ==
    /\ daPc = "install"
    /\ IF ok
          THEN /\ daInstalled' = TRUE
               /\ daPc' = "telemetry"
               /\ UNCHANGED <<daSent, daFailed>>
          ELSE /\ daFailed' = "install"
               /\ UNCHANGED daInstalled
               /\ IF currentPage /= "desktop-start"
                     THEN /\ daSent' = Append(daSent, "ERROR")
                          /\ daPc' = "returned"
                     ELSE /\ daPc' = "rejected"
                          /\ UNCHANGED daSent
    /\ UNCHANGED <<daServerCalls, daServerResolved, daServerSkipped, serverRunning>>
    /\ Frozen
    /\ UNCHANGED nonAppVars

\* initializeTelemetry settles; it is awaited outside the try block.
TelemetryDone(ok) ==
    /\ daPc = "telemetry"
    /\ daPc' = IF ok THEN "args" ELSE "rejected"
    /\ daFailed' = IF ok THEN daFailed ELSE "telemetry"
    /\ UNCHANGED <<daSent, daInstalled, daServerCalls, daServerResolved, daServerSkipped,
                   serverRunning>>
    /\ Frozen
    /\ UNCHANGED nonAppVars

\* The outer catch: ERROR, and the app quits unless it is quitting already.
CatchStartup(step) ==
    /\ daFailed' = step
    /\ daSent' = Append(daSent, "ERROR")
    /\ daPc' = IF isQuitting THEN "resolved" ELSE "quit"

\* buildServerArgs settles; then the server is started, or READY is sent at once.
ArgsDone(ok) ==
    /\ daPc = "args"
    /\ IF ~ok
          THEN /\ CatchStartup("args")
               /\ UNCHANGED <<daServerCalls, daServerSkipped>>
       ELSE IF ~useExternalServer /\ ~serverRunning
          THEN /\ daPc' = "server"
               /\ daServerCalls' = daServerCalls + 1
               /\ UNCHANGED <<daSent, daFailed, daServerSkipped>>
       ELSE /\ daSent' = Append(daSent, "READY")
            /\ daPc' = "loadUI"
            /\ daServerSkipped' = ~useExternalServer
            /\ UNCHANGED <<daFailed, daServerCalls>>
    /\ UNCHANGED <<daInstalled, daServerResolved, serverRunning>>
    /\ Frozen
    /\ UNCHANGED nonAppVars

ServerOutcomes == {"resolved", "rejected", "timedOut"}

ServerDoneAlwaysReady(outcome) ==
    /\ daPc = "server"
    /\ serverRunning' = (outcome /= "rejected")
    /\ daServerResolved' = (outcome = "resolved")
    /\ daSent' = Append(daSent, "READY")
    /\ daPc' = "loadUI"
    /\ daFailed' = IF outcome = "resolved" THEN daFailed ELSE "server"
    /\ UNCHANGED <<daInstalled, daServerCalls, daServerSkipped>>
    /\ Frozen
    /\ UNCHANGED nonAppVars

\* startComfyServer settles. After a start that timed out the server process is still
\* recorded, after any other failure it is not.
ServerDone(outcome) ==
    /\ daPc = "server"
    /\ serverRunning' = (outcome /= "rejected")
    /\ daServerResolved' = (outcome = "resolved")
    /\ IF outcome = "resolved"
          THEN /\ daSent' = Append(daSent, "READY")
               /\ daPc' = "loadUI"
               /\ UNCHANGED daFailed
          ELSE /\ daSent' = Append(daSent, "ERROR")
               /\ daPc' = "returned"
               /\ daFailed' = "server"
    /\ UNCHANGED <<daInstalled, daServerCalls, daServerSkipped>>
    /\ Frozen
    /\ UNCHANGED nonAppVars

\* loadComfyUI settles; on success the app is loaded.
LoadComfyUIDone(ok) ==
    /\ daPc = "loadUI"
    /\ IF ok THEN /\ emitLoaded
                  /\ daPc' = "resolved"
                  /\ UNCHANGED <<daSent, daFailed>>
       ELSE /\ CatchStartup("loadUI")
            /\ UNCHANGED <<emitted, onceListeners, ipcRegistered, loaded>>
    /\ UNCHANGED <<daInstalled, daServerCalls, daServerResolved, daServerSkipped,
                   serverRunning>>
    /\ UNCHANGED <<initialized, isQuitting, currentPage, appCall, appCalls, daRun,
                   useExternalServer>>
    /\ UNCHANGED nonAppVars

NextApp ==
    \/ InitializeAppState
    \/ UseAppState
    \/ EmitIpcRegistered
    \/ EmitLoaded
    \/ BeforeQuit
    \/ \E page \in Pages : LoadPage(page)
    \/ StartRun
    \/ \E ok \in BOOLEAN : InstallDone(ok)
    \/ \E ok \in BOOLEAN : TelemetryDone(ok)
    \/ \E ok \in BOOLEAN : ArgsDone(ok)
    \/ \E outcome \in ServerOutcomes : ServerDone(outcome)
    \/ \E ok \in BOOLEAN : LoadComfyUIDone(ok)

\* ------------------------------------ one VirtualEnvironment, several callers
Callers == {1, 2}
\* Public operations that run one uv command on the pty.
PtyOperations == {"createVenv", "installPytorch", "installComfyUIRequirements"}
\* Those that run it inside #using, which kills the pty afterwards.
UsingOperations == {"createVenv"}
PtyIds == 1..(Cardinality(Callers) * MaxCallerOps)

InitSharedPtyIdle ==
    /\ shPty = 0
    /\ shSpawned = 0
    /\ shAlive = {}
    /\ shQueue = [p \in PtyIds |-> <<>>]
    /\ cOp = [c \in Callers |-> "none"]
    /\ cPc = [c \in Callers |-> "idle"]
    /\ cPty = [c \in Callers |-> 0]
    /\ cOps = [c \in Callers |-> 0]

InitSharedPty == InitSharedPtyIdle

\* get uvPtyInstance: the pty in use, or a newly spawned one.
uvPtyInstance == IF shPty = 0 THEN shSpawned + 1 ELSE shPty

\* A caller invokes an operation, which reaches runPtyCommandAsync: the reader is
\* attached to uvPtyInstance and the command is written to it.
CallOperation(c, op) ==
    /\ cPc[c] /= "awaiting"
    /\ cOps[c] < MaxCallerOps
    /\ cOps' = [cOps EXCEPT ![c] = @ + 1]
    /\ cOp' = [cOp EXCEPT ![c] = op]
    /\ cPc' = [cPc EXCEPT ![c] = "awaiting"]
    /\ cPty' = [cPty EXCEPT ![c] = uvPtyInstance]
    /\ shPty' = uvPtyInstance
    /\ shSpawned' = IF shPty = 0 THEN shSpawned + 1 ELSE shSpawned
    /\ shAlive' = shAlive \cup {uvPtyInstance}
    /\ shQueue' = [shQueue EXCEPT ![uvPtyInstance] = Append(@, c)]
    /\ UNCHANGED nonSharedPtyVars

\* The shell of a live pty finishes the command it is running and echoes its end
\* marker: the caller's reader settles the run; #using then kills whatever pty is
\* recorded and forgets it.
CommandEnds(p, ok) ==
    /\ p \in shAlive
    /\ shQueue[p] /= <<>>
    /\ LET c == Head(shQueue[p])
       IN /\ cPc' = [cPc EXCEPT ![c] = IF ok THEN "done" ELSE "threw"]
          /\ IF cOp[c] \in UsingOperations /\ shPty /= 0
                THEN /\ shAlive' = shAlive \ {shPty}
                     /\ shPty' = 0
                ELSE UNCHANGED <<shAlive, shPty>>
    /\ shQueue' = [shQueue EXCEPT ![p] = Tail(@)]
    /\ UNCHANGED <<shSpawned, cOp, cPty, cOps>>
    /\ UNCHANGED nonSharedPtyVars

NextSharedPty ==
    \/ \E c \in Callers, op \in PtyOperations : CallOperation(c, op)
    \/ \E p \in PtyIds, ok \in BOOLEAN : CommandEnds(p, ok)

\* ------------------------------------------- the COMPLETE_VALIDATION channel
\* ipcMain keeps one handler per channel: handle() on a channel that has one throws,
\* handleOnce() is handle() with a listener that removes itself when invoked, and
\* removeHandler() removes whatever handler is in place.
InitChannelIdle ==
    /\ cvHandler = "none"
    /\ cvRefused = "none"
    /\ cvInstallation = FALSE
    /\ riPc = "idle"
    /\ riValid = FALSE
    /\ riRuns = 0
    /\ stPc = "idle"
    /\ stCalls = 0

InitChannel == InitChannelIdle

\* DesktopApp.fatalError with an exit code ends the app.
Exited == stPc = "fatal"

\* resolveIssues after its promise has resolved: removeHandler, then return.
resolveIssuesReturns ==
    /\ cvHandler' = "none"
    /\ riPc' = "returned"

\* start() is running: the first one until it has set the installation, a later one
\* once showTroubleshootingPage has got as far as `await this.start()`.
Starting == cvInstallation => (stPc = "started" \/ stCalls >= 2)

\* validateInstallation calls resolveIssues (the installation has issues, or the
\* iteration before returned false): the promise executor registers onInstallFix.
ResolveIssues ==
    /\ ~Exited
    /\ Starting
    /\ riPc \in {"idle", "returned", "threw"}
    /\ riRuns < MaxRechecks
    /\ riRuns' = riRuns + 1
    /\ riValid' = FALSE
    /\ IF cvHandler = "none"
          THEN /\ cvHandler' = "resolveIssues"
               /\ riPc' = "waiting"
               /\ UNCHANGED cvRefused
          ELSE /\ cvRefused' = "resolveIssues"
               /\ riPc' = "threw"
               /\ UNCHANGED cvHandler
    /\ UNCHANGED <<cvInstallation, stPc, stCalls>>
    /\ UNCHANGED nonChannelVars

\* The renderer invokes COMPLETE_VALIDATION: the handler removes itself and runs.
InvokeCompleteValidation ==
    /\ ~Exited
    /\ cvHandler /= "none"
    /\ IF cvHandler = "resolveIssues"
          THEN /\ IF riValid THEN resolveIssuesReturns
                  ELSE cvHandler' = "none" /\ riPc' = "validating"
               /\ UNCHANGED stPc
          ELSE /\ cvHandler' = "none"
               /\ stPc' = "started"
               /\ UNCHANGED riPc
    /\ UNCHANGED <<cvRefused, cvInstallation, riValid, riRuns, stCalls>>
    /\ UNCHANGED nonChannelVars

\* The troubleshooting page calls troubleshooting.onInstallFix itself: the handler
\* stays in place until resolveIssues removes it.
CallOnInstallFix ==
    /\ ~Exited
    /\ riPc = "waiting"
    /\ IF riValid THEN resolveIssuesReturns
       ELSE riPc' = "validating" /\ UNCHANGED cvHandler
    /\ UNCHANGED <<cvRefused, cvInstallation, riValid, riRuns, stPc, stCalls>>
    /\ UNCHANGED nonChannelVars

\* `await installation.validate()` in onInstallFix ends; the promise resolves with
\* isValid and resolveIssues goes on.
FixValidated(valid) ==
    /\ ~Exited
    /\ riPc = "validating"
    /\ riValid' = valid
    /\ resolveIssuesReturns
    /\ UNCHANGED <<cvRefused, cvInstallation, riRuns, stPc, stCalls>>
    /\ UNCHANGED nonChannelVars

\* showTroubleshootingPage from `ipcMain.handleOnce(COMPLETE_VALIDATION, resolve)` on.
awaitCompleteValidation ==
    IF cvHandler = "none"
       THEN /\ cvHandler' = "page"
            /\ stPc' = "waiting"
            /\ UNCHANGED cvRefused
       ELSE /\ cvRefused' = "page"
            /\ stPc' = "fatal"
            /\ UNCHANGED cvHandler

\* The renderer invokes START_TROUBLESHOOTING.
ShowTroubleshootingPage(appLoaded) ==
    /\ ~Exited
    /\ stPc \in {"idle", "started"}
    /\ stCalls < MaxPageCalls
    /\ stCalls' = stCalls + 1
    /\ IF ~cvInstallation
          THEN stPc' = "fatal" /\ UNCHANGED <<cvHandler, cvRefused>>
       ELSE IF appLoaded
          THEN awaitCompleteValidation
       ELSE stPc' = "loading" /\ UNCHANGED <<cvHandler, cvRefused>>
    /\ UNCHANGED <<cvInstallation, riPc, riValid, riRuns>>
    /\ UNCHANGED nonChannelVars

\* `await this.appWindow.loadPage('maintenance')` ends.
MaintenancePageLoaded(ok) ==
    /\ stPc = "loading"
    /\ IF ok THEN awaitCompleteValidation
       ELSE stPc' = "fatal" /\ UNCHANGED <<cvHandler, cvRefused>>
    /\ UNCHANGED <<cvInstallation, riPc, riValid, riRuns, stCalls>>
    /\ UNCHANGED nonChannelVars

\* The first start() has returned from initializeInstallation with an installation:
\* it had no issues, or resolveIssues has returned true.
InstallationSet ==
    /\ ~Exited
    /\ ~cvInstallation
    /\ riPc = "idle" \/ (riPc = "returned" /\ riValid)
    /\ cvInstallation' = TRUE
    /\ UNCHANGED <<cvHandler, cvRefused, riPc, riValid, riRuns, stPc, stCalls>>
    /\ UNCHANGED nonChannelVars

NextChannel ==
    \/ ResolveIssues
    \/ InvokeCompleteValidation
    \/ CallOnInstallFix
    \/ \E valid \in BOOLEAN : FixValidated(valid)
    \/ \E appLoaded \in BOOLEAN : ShowTroubleshootingPage(appLoaded)
    \/ \E ok \in BOOLEAN : MaintenancePageLoaded(ok)
    \/ InstallationSet

\* ---------------------------------------------------------- specifications
\* Each specification starts its own part in any of its initial states and every other
\* part in its idle state.
ServerInit ==
    /\ InitServer
    /\ InitArgsIdle
    /\ InitPtyIdle
    /\ InitParseIdle
    /\ InitVenvIdle
    /\ InitReqIdle
    /\ InitInstallIdle
    /\ InitSettingsIdle
    /\ InitAppIdle
    /\ InitSharedPtyIdle
    /\ InitChannelIdle
SpecServer == ServerInit /\ [][NextServer]_vars

ArgsInit ==
    /\ InitArgs
    /\ InitServer
    /\ InitPtyIdle
    /\ InitParseIdle
    /\ InitVenvIdle
    /\ InitReqIdle
    /\ InitInstallIdle
    /\ InitSettingsIdle
    /\ InitAppIdle
    /\ InitSharedPtyIdle
    /\ InitChannelIdle
SpecArgs == ArgsInit /\ [][NextArgs]_vars

PtyInit ==
    /\ InitPty
    /\ InitServer
    /\ InitArgsIdle
    /\ InitParseIdle
    /\ InitVenvIdle
    /\ InitReqIdle
    /\ InitInstallIdle
    /\ InitSettingsIdle
    /\ InitAppIdle
    /\ InitSharedPtyIdle
    /\ InitChannelIdle
SpecPty == PtyInit /\ [][NextPty]_vars

ParseInit ==
    /\ InitParse
    /\ InitServer
    /\ InitArgsIdle
    /\ InitPtyIdle
    /\ InitVenvIdle
    /\ InitReqIdle
    /\ InitInstallIdle
    /\ InitSettingsIdle
    /\ InitAppIdle
    /\ InitSharedPtyIdle
    /\ InitChannelIdle
SpecParse == ParseInit /\ [][NextParse]_vars

VenvInit ==
    /\ InitVenv
    /\ InitServer
    /\ InitArgsIdle
    /\ InitPtyIdle
    /\ InitParseIdle
    /\ InitReqIdle
    /\ InitInstallIdle
    /\ InitSettingsIdle
    /\ InitAppIdle
    /\ InitSharedPtyIdle
    /\ InitChannelIdle
SpecVenv == VenvInit /\ [][NextVenv]_vars

ReqInit ==
    /\ InitReq
    /\ InitServer
    /\ InitArgsIdle
    /\ InitPtyIdle
    /\ InitParseIdle
    /\ InitVenvIdle
    /\ InitInstallIdle
    /\ InitSettingsIdle
    /\ InitAppIdle
    /\ InitSharedPtyIdle
    /\ InitChannelIdle
SpecReq == ReqInit /\ [][NextReq]_vars

InstallInit ==
    /\ InitInstall
    /\ InitServer
    /\ InitArgsIdle
    /\ InitPtyIdle
    /\ InitParseIdle
    /\ InitVenvIdle
    /\ InitReqIdle
    /\ InitSettingsIdle
    /\ InitAppIdle
    /\ InitSharedPtyIdle
    /\ InitChannelIdle
SpecInstall == InstallInit /\ [][NextInstall]_vars

\* The troubleshooting page keeps signalling recheck and the installation eventually
\* validates without errors: a recheck that finds no error does happen.
ValidRecheck ==
    \E report \in Reports :
       /\ \A c \in Checks : report[c] /= "error"
       /\ OnInstallFix(report)
SpecInstallLive == InstallInit /\ [][NextInstall]_vars /\ WF_vars(ValidRecheck)

SettingsInit ==
    /\ InitSettings
    /\ InitServer
    /\ InitArgsIdle
    /\ InitPtyIdle
    /\ InitParseIdle
    /\ InitVenvIdle
    /\ InitReqIdle
    /\ InitInstallIdle
    /\ InitAppIdle
    /\ InitSharedPtyIdle
    /\ InitChannelIdle
SpecSettings == SettingsInit /\ [][NextSettings]_vars

AppInit ==
    /\ InitApp
    /\ InitServer
    /\ InitArgsIdle
    /\ InitPtyIdle
    /\ InitParseIdle
    /\ InitVenvIdle
    /\ InitReqIdle
    /\ InitInstallIdle
    /\ InitSettingsIdle
    /\ InitSharedPtyIdle
    /\ InitChannelIdle
SpecApp == AppInit /\ [][NextApp]_vars

SharedPtyInit ==
    /\ InitSharedPty
    /\ InitServer
    /\ InitArgsIdle
    /\ InitPtyIdle
    /\ InitParseIdle
    /\ InitVenvIdle
    /\ InitReqIdle
    /\ InitInstallIdle
    /\ InitSettingsIdle
    /\ InitAppIdle
    /\ InitChannelIdle
SpecSharedPty == SharedPtyInit /\ [][NextSharedPty]_vars

ChannelInit ==
    InitChannel
    /\ InitServer
    /\ InitArgsIdle
    /\ InitPtyIdle
    /\ InitParseIdle
    /\ InitVenvIdle
    /\ InitReqIdle
    /\ InitInstallIdle
    /\ InitSettingsIdle
    /\ InitAppIdle
    /\ InitSharedPtyIdle
SpecChannel == ChannelInit /\ [][NextChannel]_vars

\* ------------------------------------------------------------------ claims
SettledStart == {"alreadyRunning", "rejectedPreSpawn", "resolvedExit", "resolvedProbe",
                 "rejectedError", "rejectedExit", "rejectedTimeout"}
InProgressStart == {"awaitConfig", "awaitRotate", "pending"}
SettledKill == {"resolvedNoProcess", "resolvedExit", "rejectedSignal", "rejectedTimeout"}

\* C1: a start() issued while an earlier start() is still in progress (awaiting its
\* pre-spawn steps or its outcome) or while a process is recorded rejects with
\* 'ComfyUI server is already running' and therefore never reaches runPythonCommand.
C1_OverlappingStartRejected ==
    [][\A a \in Attempts :
          ( /\ startOutcome[a] = "notCalled"
            /\ startOutcome'[a] /= "notCalled"
            /\ (isRunning \/ \E b \in Attempts : startOutcome[b] \in InProgressStart) )
          => startOutcome'[a] = "alreadyRunning"]_vars

\* C2: at most one child spawned by the ComfyServer is alive (spawned, not yet exited).
C2_AtMostOneLiveChild == Cardinality({a \in Attempts : child[a] = "alive"}) <= 1

\* C3: for every key present in both coreLaunchArgs and serverArgs, the element that
\* follows the flag in the launch vector is the core value, never the caller's value.
C3_CoreValueWins ==
    launchArgv /= <<>> =>
      \A i \in 1..Len(coreLaunchArgs) :
        LET k == coreLaunchArgs[i][1]
            v == coreLaunchArgs[i][2]
        IN HasKey(serverArgs, k) =>
             \A j \in 1..Len(launchArgv) :
               launchArgv[j] = "--" \o k =>
                 IF v /= ""
                    THEN j < Len(launchArgv) /\ launchArgv[j + 1] = v
                    ELSE \/ ValueOf(serverArgs, k) = ""
                         \/ j = Len(launchArgv)
                         \/ launchArgv[j + 1] /= ValueOf(serverArgs, k)

\* C4: when the probe of a start() succeeds before that start()'s process emitted 'exit'
\* or 'error', start() resolves at that step and the supervisor still records a process
\* (isRunning is true).
C4_ProbeSuccessKeepsProcess ==
    [][\A a \in Attempts :
          (probe[a] = "polling" /\ probe'[a] = "ok" /\ child[a] = "alive" /\ ~errorEmitted[a])
          => (startOutcome'[a] = "resolvedProbe" /\ isRunning')]_vars

\* C5: when the probe wait of a start() elapses and its process has neither exited nor
\* emitted 'error', that start() rejects with the timeout error and
\* timedOutWhilstStarting is true in the state in which the rejection happens.
C5_TimeoutRejectsWithFlag ==
    [][\A a \in Attempts :
          (probe[a] = "polling" /\ probe'[a] = "timeout"
             /\ child[a] /= "exited" /\ ~errorEmitted[a])
          => (startOutcome'[a] = "rejectedTimeout" /\ timedOutWhilstStarting')]_vars

C5_Witness ==
    \E a \in Attempts :
       /\ startOutcome[a] = "rejectedTimeout"
       /\ probe[a] = "timeout"
       /\ timedOutWhilstStarting
       /\ child[a] = "alive"

\* C6: timedOutWhilstStarting is true only if the most recent start() that spawned a
\* process was rejected by the probe timeout (not by an exit or an 'error').
C6_FlagOnlyAfterTimeout ==
    timedOutWhilstStarting =>
       (lastSpawned /= 0 /\ startOutcome[lastSpawned] = "rejectedTimeout")

\* C7: when the process of a start() settles before its probe (first 'exit' or 'error'
\* while the probe is still polling): exit code 0 resolves start(), a non-zero code or
\* an 'error' rejects it, and in each case isRunning is false in the resulting state.
C7_ProcessSettlesFirst ==
    [][\A a \in Attempts :
          (probe[a] = "polling" /\ ~errorEmitted[a] /\ child[a] \in {"alive", "spawnFailed"})
          => /\ (child'[a] = "exited" /\ exitCode'[a] = 0)
                  => (startOutcome'[a] = "resolvedExit" /\ ~isRunning')
             /\ (child'[a] = "exited" /\ exitCode'[a] /= 0)
                  => (startOutcome'[a] = "rejectedExit" /\ ~isRunning')
             /\ errorEmitted'[a]
                  => (startOutcome'[a] = "rejectedError" /\ ~isRunning')]_vars

C7_Witness ==
    /\ ~isRunning
    /\ \E a \in Attempts :
          startOutcome[a] = "resolvedExit" /\ exitCode[a] = 0 /\ probe[a] = "polling"
    /\ \E a \in Attempts :
          /\ startOutcome[a] \in {"rejectedExit", "rejectedError"}
          /\ probe[a] = "polling"

\* C8: kill() with no recorded process resolves in the same step and changes nothing
\* else: no signal, no timer, no listener, isRunning and timedOutWhilstStarting as before.
C8_KillWithoutProcessIsNoop ==
    [][\A k \in Kills :
          (killState[k] = "notCalled" /\ killState'[k] /= "notCalled"
             /\ comfyServerProcess = 0)
          => /\ killState'[k] = "resolvedNoProcess"
             /\ killResult'[k] = "none" /\ killTarget'[k] = 0
             /\ ~killTimer'[k] /\ ~killListener'[k]
             /\ UNCHANGED <<comfyServerProcess, timedOutWhilstStarting, writeLocked,
                            startOutcome, childVars, probe>>]_vars

C8_Witness ==
    \E k \in Kills :
       /\ killState[k] = "resolvedNoProcess"
       /\ \E a \in Attempts : child[a] = "exited"

\* C9: kill() on a recorded process settles once: 'Failed to initiate kill signal' in
\* the call itself when the signal could not be sent; resolved by the process 'exit'
\* while pending; rejected by the 10 s timer while pending; a settled kill() never
\* changes afterwards, whatever exit event or timer follows.
C9_KillSettlesOnce ==
    [][\A k \in Kills :
          /\ (killState[k] = "notCalled" /\ killResult'[k] = "failed")
                => (killState'[k] = "rejectedSignal" /\ ~killTimer'[k])
          /\ (killState[k] = "pending" /\ child'[killTarget[k]] = "exited")
                => killState'[k] = "resolvedExit"
          /\ (killState[k] = "pending" /\ killTimer[k] /\ ~killTimer'[k]
                /\ child'[killTarget[k]] /= "exited")
                => killState'[k] = "rejectedTimeout"
          /\ killState[k] \in SettledKill => killState'[k] = killState[k]]_vars

C9_Witness ==
    \E k \in Kills :
       /\ killState[k] = "rejectedSignal"
       /\ killResult[k] = "failed"
       /\ child[killTarget[k]] = "exited"
\* C10: whenever the command finished with exit code 0, on a POSIX shell or on
\* PowerShell, the run resolves with exitCode 0.
C10_ExitZeroResolvesZero == (ptyResolved /\ ptyCmdExit = 0) => ptyExitCode = 0

\* C11 (as stated): 'True' gives 0, 'False' gives -999, text that is a number gives
\* that number, and every other text gives -998.
StripZeros(ds) ==
    LET nz == {i \in 1..Len(ds) : ds[i] /= "0"}
    IN IF nz = {} THEN <<"0">>
       ELSE SubSeq(ds, CHOOSE i \in nz : \A j \in nz : i <= j, Len(ds))
AllDigits(ts) == ts /= <<>> /\ \A i \in 1..Len(ts) : IsDigit(ts[i])
Unsigned(ts) == IF ts /= <<>> /\ Head(ts) \in {"-", "+"} THEN Tail(ts) ELSE ts
Negative(ts) == ts /= <<>> /\ Head(ts) = "-"
\* n is the integer written by the sign and the digits ds.
Denotes(n, neg, ds) ==
    LET m == IF n < 0 THEN 0 - n ELSE n
    IN /\ Digits(m) = StripZeros(ds)
       /\ (n < 0 => neg)
       /\ (n > 0 => ~neg)
IsWord(ts) == Join(ts) \in {"True", "False"}
LeadingDigits(ts) ==
    LET ends == {k \in 0..Len(ts) :
                   /\ \A i \in 1..k : IsDigit(ts[i])
                   /\ (k < Len(ts) => ~IsDigit(ts[k + 1]))}
    IN SubSeq(ts, 1, CHOOSE k \in ends : TRUE)
PtyStranded ==
    /\ ptyReader
    /\ ~ptyResolved
    /\ ~ptyAlive
    /\ ptyPos = Len(ptyStream)
C12_DeadShellNeverSettles ==
    [][/\ PtyStranded => PtyStranded'
       /\ (ptyReader /\ (ptyResolved' /= ptyResolved \/ ptyReader' /= ptyReader))
             => /\ ptyPos' > ptyPos
                /\ hasExited(SubSeq(ptyStream, ptyPos + 1, ptyPos'), endMarker).found]_vars
\* The shell died after printing part of the command's output, before the marker.
C12_Witness ==
    /\ PtyStranded
    /\ ptyPos > Len(InputEcho)
    /\ ptySink = ptyStream

\* C13: whenever an operation that runs interactive uv commands has returned or
\* thrown, no pty is left alive (uvPty is undefined).
C13_NoPtyAfterOperation == (Idle /\ veOp /= "none") => uvPty = Undefined

\* C14: create() on an existing environment directory returns successfully without
\* running a command, and a create() that follows a successful create() runs none.
C14_CreateIdempotent ==
    [][/\ (veOp = "create" /\ veStep = "exists" /\ venvExists)
            => (veStep' = "none" /\ veResult' = "returned" /\ veLog' = <<>>)
       /\ (veOp' = "create" /\ vePrevOp' = "create" /\ vePrevResult' = "returned")
            => (veLog' = <<>> /\ veStep' \in {"exists", "none"}
                /\ veResult' \in {"pending", "returned"})]_vars
\* A second create() has returned, having run nothing, after a first create() returned.
C14_Witness ==
    /\ veOp = "create" /\ vePrevOp = "create" /\ vePrevResult = "returned"
    /\ Idle /\ veResult = "returned" /\ veLog = <<>>
    /\ selectedDevice = "nvidia"
    /\ uvPty = Undefined

\* C15: with device 'unsupported', create() returns at once: it neither probes nor
\* creates the environment directory and runs no command.
C15_UnsupportedSkipsEverything ==
    [][(Idle /\ selectedDevice = "unsupported" /\ veOp' = "create"
          /\ veCalls' = veCalls + 1)
         => (veStep' = "none" /\ veResult' = "returned" /\ veLog' = <<>>
             /\ venvExists' = venvExists)]_vars
\* create() has returned for an unsupported device and there is still no directory.
C15_Witness ==
    /\ selectedDevice = "unsupported"
    /\ veOp = "create" /\ Idle /\ veResult = "returned"
    /\ ~venvExists /\ veLog = <<>>

\* C16: inside create(), installRequirements enters the manual install exactly when
\* the platform is darwin or the compiled-lockfile install exited non-zero; a lockfile
\* install that exits 0 is followed by no manual command, and on darwin the lockfile
\* install is never attempted.
Ran(cmd) == \E i \in 1..Len(veLog) : veLog[i].cmd = cmd
RanWith(cmd, ok) == \E i \in 1..Len(veLog) : veLog[i].cmd = cmd /\ (veLog[i].code = 0) = ok
Started(cmd) == veStep = cmd \/ Ran(cmd)
ManualCommands == {"torch", "core", "manager"}
C16_ManualInstallIffDarwinOrLockfileFailed ==
    (veOp = "create" /\ RanWith("ensurepip", TRUE)) =>
        /\ Started("torch") <=> (platform = "darwin" \/ RanWith("compiled", FALSE))
        /\ platform = "darwin" => ~Started("compiled")
        /\ platform /= "darwin" => Started("compiled")
        /\ RanWith("compiled", TRUE) =>
              /\ \A c \in ManualCommands : ~Started(c)
              /\ Idle /\ veResult = "returned"
\* The lockfile install failed off darwin and the manual install has begun.
C16_Witness ==
    /\ veOp = "create" /\ platform = "win32"
    /\ RanWith("compiled", FALSE)
    /\ Ran("torch")

\* C17: a manual install runs torch, then the core requirements, then the manager
\* requirements; each starts only after the one before exited 0, and the first
\* non-zero exit raises and keeps the rest of that manual install from running.
ManualOperations == {"create", "reinstallRequirements"}
LastIs(cmd) ==
    /\ veLog /= <<>>
    /\ veLog[Len(veLog)].cmd = cmd
    /\ veLog[Len(veLog)].code = 0
    /\ veLog[Len(veLog)].attempt = veAttempt
Follows(i, cmd) ==
    /\ i > 1
    /\ veLog[i - 1].cmd = cmd
    /\ veLog[i - 1].code = 0
    /\ veLog[i - 1].attempt = veLog[i].attempt
C17_ManualInstallInOrder ==
    veOp \in ManualOperations =>
        /\ veStep = "core" => LastIs("torch")
        /\ veStep = "manager" => LastIs("core")
        /\ \A i \in 1..Len(veLog) :
              /\ veLog[i].cmd = "core" => Follows(i, "torch")
              /\ veLog[i].cmd = "manager" => Follows(i, "core")
              /\ (veLog[i].cmd \in ManualCommands /\ veLog[i].code /= 0) =>
                    IF i < Len(veLog)
                       THEN veLog[i + 1].cmd \notin ManualCommands
                       ELSE /\ veStep \notin ManualCommands
                            /\ Idle => veResult = "threw"
\* The core requirements failed after torch succeeded; create() threw.
C17_Witness ==
    /\ veOp = "create" /\ Idle /\ veResult = "threw"
    /\ Len(veLog) >= 2
    /\ veLog[Len(veLog) - 1].cmd = "torch" /\ veLog[Len(veLog) - 1].code = 0
    /\ veLog[Len(veLog)].cmd = "core" /\ veLog[Len(veLog)].code = 1

\* C18: whatever the device and the configured torch mirror (unset and empty
\* included), torch is never installed from TorchMirrorUrl.Default when the device is
\* 'nvidia' or 'mps'.
C18_NoDefaultMirrorForGpu ==
    selectedDevice \in {"nvidia", "mps"} =>
        /\ veStep = "torch" => torchIndexUrl /= TorchMirrorDefault
        /\ \A i \in 1..Len(veLog) :
              veLog[i].cmd = "torch" => veLog[i].indexUrl /= TorchMirrorDefault
\* The default mirror was configured for an nvidia device; torch came from the CUDA one.
C18_Witness ==
    /\ deviceArg = "nvidia" /\ mirrorArg = TorchMirrorDefault
    /\ \E i \in 1..Len(veLog) :
          veLog[i].cmd = "torch" /\ veLog[i].indexUrl = TorchMirrorCuda

\* C19: hasRequirements returns 'package-upgrade' exactly when one check is OK and
\* the other is a recognised upgrade, or both are recognised upgrades; 'OK' exactly
\* when both checks are OK; 'error' for every other combination.
CheckStatus(ok, upgrade) == IF ok THEN "OK" ELSE IF upgrade THEN "upgrade" ELSE "other"
coreStatus == CheckStatus(hasAllPackages(coreOutput), isCoreUpgrade(coreOutput))
managerStatus ==
    CheckStatus(hasAllPackages(managerOutput), isManagerUpgrade(managerOutput))
Returned == reqResult \notin {"none", "threw"}
Contains(output, line) == \E i \in 1..Len(output) : output[i] = line
EndsWithPhrase(output) ==
    \E n \in 1..Len(output) :
        /\ n < Len(output)
        /\ output[n] = NoChangesLine
        /\ \A i \in (n + 1)..Len(output) : output[i] \in Whitespace
UnlistedRemovalLines == {RemoveNumpy, RemoveAvro}
HasUnlistedRemoval(output) == \E i \in 1..Len(output) : output[i] \in UnlistedRemovalLines
C21_UnlistedRemovalIsError ==
    (Returned /\ (HasUnlistedRemoval(coreOutput) \/ HasUnlistedRemoval(managerOutput)))
        => reqResult = "error"

\* C22: reinstallRequirements makes at most two manual-install attempts and then
\* ends; the second follows a failed first, then a successful `uv venv`, then a
\* successful ensurepip, in that order; a failed second attempt ends the operation.
C22_AtMostTwoAttempts ==
    veOp = "reinstallRequirements" =>
        /\ veAttempt \in {1, 2}
        /\ Cardinality({i \in 1..Len(veLog) : veLog[i].cmd = "torch"}) <= 2
        /\ Len(veLog) <= 8
        /\ veAttempt = 2 =>
              \E i \in 1..Len(veLog) :
                 /\ veLog[i].cmd \in ManualCommands /\ veLog[i].code /= 0
                 /\ Len(veLog) >= i + 2
                 /\ veLog[i + 1].cmd = "venv" /\ veLog[i + 1].code = 0
                 /\ veLog[i + 2].cmd = "ensurepip" /\ veLog[i + 2].code = 0
                 /\ \A j \in 1..(i + 2) : veLog[j].attempt = 1
                 /\ \A j \in (i + 3)..Len(veLog) :
                       veLog[j].attempt = 2 /\ veLog[j].cmd \in ManualCommands
        /\ \A i \in 1..Len(veLog) :
              (veLog[i].attempt = 2 /\ veLog[i].code /= 0) =>
                  (i = Len(veLog) /\ Idle /\ veResult = "threw")
\* Both attempts failed: the second one at its last command.
C22_Witness ==
    /\ veOp = "reinstallRequirements" /\ Idle /\ veResult = "threw"
    /\ veAttempt = 2
    /\ Len(veLog) = 6
    /\ veLog[6].cmd = "manager"

InLog(step) == \E i \in 1..Len(imLog) : imLog[i] = step
IsFreshStep(step) == \E i \in 1..Len(FreshSteps) : FreshSteps[i] = step
C25_WriteLockGlobalAndPermanent ==
    [][/\ writeLocked => writeLocked'
       /\ lastSpawned' /= 0 => writeLocked'
       /\ (writeLocked /\ csCalls' /= csCalls /\ csLast'.op \in {"set", "save"}) =>
             /\ csLast'.threw
             /\ csSettings' = csSettings
             /\ csFile' = csFile
             /\ csWriting' = csWriting
       /\ (writeLocked /\ csCalls' /= csCalls /\ csLast'.op = "get") =>
             /\ ~csLast'.threw
             /\ csLast'.value = csSettings[csLast'.inst]]_vars
\* After the server has spawned its process, a set() on the second instance threw.
C25_Witness ==
    /\ writeLocked
    /\ lastSpawned /= 0
    /\ csLast.op = "set"
    /\ csLast.inst = 2
    /\ csLast.threw
    /\ csLast.value /= csSettings[2]

\* C26: buildLaunchArgs turns the entries of its object, in insertion order, into
\* '--key' followed by the value when the value is not the empty string and into
\* '--key' alone when it is; the empty object gives the empty vector.
RECURSIVE ArgsInOrder(_)
ArgsInOrder(obj) ==
    IF obj = <<>> THEN <<>>
    ELSE (IF Head(obj)[2] = "" THEN <<"--" \o Head(obj)[1]>>
          ELSE <<"--" \o Head(obj)[1], Head(obj)[2]>>) \o ArgsInOrder(Tail(obj))
C26_BuildLaunchArgsInOrder == buildDone => buildResult = ArgsInOrder(buildArgs)
\* C26 (amended): that holds for objects none of whose keys is an array index; in
\* general the order is that of Object.entries.
C26_InsertionOrderForStringKeys ==
    buildDone =>
        /\ buildResult = ArgsInOrder(ObjectEntries(buildArgs))
        /\ (\A i \in 1..Len(buildArgs) : HasStringKey(buildArgs[i])) =>
              buildResult = ArgsInOrder(buildArgs)
\* { cpu: '', port: '8188' } gave ['--cpu', '--port', '8188'].
C26_Witness ==
    /\ buildDone
    /\ buildArgs = << <<"cpu", "">>, <<"port", "8188">> >>
    /\ buildResult = <<"--cpu", "--port", "8188">>
\* The empty object gave the empty vector.
C26_WitnessEmpty == buildDone /\ buildArgs = <<>> /\ buildResult = <<>>

\* C27: in a run of start(), READY is sent only after ensureInstalled() resolved and
\* either an external server is used or startComfyServer() resolved; when the
\* installation or the server start fails, ERROR is sent and READY is not, and no
\* server start follows a failed installation.
C27_ReadyOnlyAfterInstallAndServer ==
    /\ Sent("READY") => daInstalled /\ (useExternalServer \/ daServerResolved)
    /\ daFailed \in {"install", "server"} => Sent("ERROR") /\ ~Sent("READY")
    /\ daFailed = "install" => daServerCalls = 0
\* C27 (amended): READY also follows when the server was found running already; a
\* failed installation sends ERROR only when the page is no longer the start screen,
\* otherwise start() rejects and sends nothing.
C27_ReadyAndErrorByPath ==
    /\ Sent("READY") =>
          daInstalled /\ (useExternalServer \/ daServerResolved \/ daServerSkipped)
    /\ daServerSkipped => serverRunning
    /\ daFailed = "server" => Sent("ERROR") /\ ~Sent("READY") /\ daPc = "returned"
    /\ daFailed = "install" =>
          /\ ~Sent("READY")
          /\ daServerCalls = 0
          /\ IF currentPage = "desktop-start" THEN daSent = <<>> /\ daPc = "rejected"
             ELSE daSent = <<"ERROR">> /\ daPc = "returned"
\* The server start of the run failed after the installation had resolved.
C27_Witness ==
    /\ daFailed = "server"
    /\ daInstalled
    /\ daServerCalls = 1
    /\ daSent = <<"ERROR">>
\* The installation failed on the start screen: nothing was sent.
C27_WitnessRethrown ==
    /\ daFailed = "install"
    /\ currentPage = "desktop-start"
    /\ daPc = "rejected"
    /\ daSent = <<>>

\* C28: loaded and ipcRegistered never go back to false and each event is emitted at
\* most once: the first emitLoaded()/emitIpcRegistered() after initializeAppState()
\* sets the flag and emits, a later call emits nothing; initializeAppState() when
\* already initialized and useAppState() when not yet initialized throw AppStartError.
CalledOnModule(fn) == appCalls' /= appCalls /\ appCall'.fn = fn
C28_FlagsMonotonicEventsOnce ==
    [][/\ loaded => loaded'
       /\ ipcRegistered => ipcRegistered'
       /\ initialized => initialized'
       /\ \A e \in Events : emitted'[e] <= 1
       /\ CalledOnModule("emitLoaded") =>
             IF loaded THEN emitted' = emitted
             ELSE loaded' /\ emitted'["loaded"] = emitted["loaded"] + 1
       /\ CalledOnModule("emitIpcRegistered") =>
             IF ipcRegistered THEN emitted' = emitted
             ELSE ipcRegistered' /\ emitted'["ipcRegistered"] = emitted["ipcRegistered"] + 1
       /\ CalledOnModule("initializeAppState") =>
             (appCall'.threw = AppStartError) = initialized
       /\ CalledOnModule("useAppState") =>
             (appCall'.threw = AppStartError) = ~initialized]_vars
\* emitLoaded() was called again after the app had loaded.
C28_Witness ==
    /\ loaded
    /\ emitted["loaded"] = 1
    /\ appCall.fn = "emitLoaded"
    /\ appCalls >= 2
    /\ daPc = "resolved"

\* C29: the first of {process exit, process 'error', probe success, probe timeout}
\* fixes the outcome of start(), and once it is fixed no later event of that attempt
\* (the losing listener or poll) changes the outcome, isRunning or
\* timedOutWhilstStarting.
RaceSettled == {"resolvedExit", "resolvedProbe", "rejectedError", "rejectedExit",
                "rejectedTimeout"}
EventOf(a) ==
    \/ child'[a] /= child[a]
    \/ errorEmitted'[a] /= errorEmitted[a]
    \/ probe'[a] /= probe[a]
C29_FirstWinsLoserCleanedUp ==
    [][\A a \in Attempts :
          startOutcome[a] \in RaceSettled =>
             /\ startOutcome'[a] = startOutcome[a]
             /\ EventOf(a) =>
                   /\ isRunning' = isRunning
                   /\ timedOutWhilstStarting' = timedOutWhilstStarting]_vars

\* C30: whatever the interleaving of the callers' operations, at most one command is
\* awaiting its end marker on the shared pty, and the pty a command awaits its marker
\* on has not been killed by the teardown of another operation.
C30_OneCommandAndNoKillWhileAwaiting ==
    /\ Cardinality({c \in Callers : cPc[c] = "awaiting"}) <= 1
    /\ \A c \in Callers : cPc[c] = "awaiting" => cPty[c] \in shAlive

\* C31: a create() that finds no environment directory runs venv creation, then the
\* pip bootstrap, then the dependency install, each only after the one before has
\* succeeded; a failing step ends create() by throwing with no step after it, and the
\* directory made so far is never removed.
DependencyInstall == {"compiled", "torch", "core", "manager"}
CreateInOrder ==
    /\ veLog /= <<>> => veLog[1].cmd = "venv"
    /\ Len(veLog) >= 2 => veLog[1].code = 0 /\ veLog[2].cmd = "ensurepip"
    /\ Len(veLog) >= 3 => veLog[2].code = 0
    /\ \A i \in 3..Len(veLog) : veLog[i].cmd \in DependencyInstall
    /\ \A i \in 1..Len(veLog) :
          (veLog[i].code /= 0 /\ veLog[i].cmd /= "compiled") =>
             i = Len(veLog) /\ Idle /\ veResult = "threw"
    /\ (Idle /\ veResult = "returned" /\ veLog /= <<>>) =>
          /\ Len(veLog) >= 3
          /\ veLog[Len(veLog)].code = 0
C31_CreateStepsInOrder ==
    [][veOp' = "create" =>
          /\ CreateInOrder'
          /\ (veOp = "create" /\ venvExists) => venvExists']_vars
\* The pip bootstrap failed after the directory had been made: create() threw and the
\* directory is still there.
C31_Witness ==
    /\ veOp = "create"
    /\ Idle
    /\ veResult = "threw"
    /\ Len(veLog) = 2
    /\ veLog[2].cmd = "ensurepip"
    /\ venvExists

\* C32: in the first-install flow the install state is 'started' from before the
\* first step on, and it becomes 'installed' only when every step up to and including
\* virtualEnvironment.create() has succeeded; when a step throws it stays 'started'.
FirstInstall == imConfig \in {"none", "started"} /\ imPc /= "idle"
C32_StartedUntilCreated ==
    FirstInstall =>
       /\ imState \in {"started", "installed"}
       /\ imState = "installed" => imPc = "resolved" /\ imLog = FreshSteps
       /\ imPc = "rejected" => imState = "started"
\* virtualEnvironment.create() threw in a first install: the state is still 'started'.
C32_Witness ==
    /\ imConfig = "none"
    /\ imPc = "rejected"
    /\ imLog[Len(imLog)] = "create"
    /\ imState = "started"

\* C33: issue resolution is entered only with an 'error' in the report and is left
\* only by a recheck signal after which the installation is valid; the recheck
\* validates again only if the installation is not valid yet; a step without a recheck
\* signal leaves the state machine where it is.
Recheck == \E report \in Reports : OnInstallFix(report)
C33_LoopLeftOnlyWhenValid ==
    [][/\ (imPc /= "resolve" /\ imPc' = "resolve") => hasIssues'
       /\ imPc = "resolve" =>
             IF Recheck
                THEN /\ isValid => imReport' = imReport
                     /\ imPc' = IF isValid' THEN "resolved" ELSE "resolve"
                ELSE imPc' = "resolve" /\ imLog' = imLog]_vars
\* A recheck found the installation still invalid: the loop goes round again.
C33_Witness ==
    /\ imPc = "resolve"
    /\ imRechecks = 1
    /\ hasIssues
    /\ imLog[Len(imLog)] = "resolve"

\* C34: the issue-resolution loop has no iteration bound (a recheck is possible in
\* every state of the loop, however many have happened); if rechecks keep coming and
\* one of them finds the installation valid, validateInstallation returns; a recheck
\* that leaves the installation invalid never makes it return.
C34_LoopUnboundedAndLive ==
    /\ [](imPc = "resolve" => ENABLED (\E report \in Reports : OnInstallFix(report)))
    /\ (imPc = "resolve") ~> (imPc = "resolved")
    /\ [][(imPc = "resolve" /\ ~isValid') => imPc' = "resolve"]_vars
\* validateInstallation returned after more rechecks than are counted.
C34_Witness ==
    /\ imPc = "resolved"
    /\ imRechecks = MaxRechecks
    /\ imLog[Len(imLog)] = "resolve"
    /\ isValid

\* C35: while the listener of a run is registered, every chunk the pty emits is
\* appended to the caller's sink as it is, in arrival order, the chunk on which the
\* run resolves (it holds the end marker) included; that chunk disposes the listener,
\* and a chunk that arrives without a listener is not forwarded.
Chunk == SubSeq(ptyStream, ptyPos + 1, ptyPos')
C35_SinkGetsChunksUntilResolved ==
    [][/\ (ptyReader /\ ptyPos' > ptyPos) => ptySink' = ptySink \o Chunk
       /\ (~ptyReader) => ptySink' = ptySink
       /\ (ptyResolved' /\ ~ptyResolved) =>
             /\ ~ptyReader'
             /\ hasExited(Chunk, endMarker).found
             /\ ptySink' = SubSeq(ptyStream, 1, ptyPos')]_vars
\* The run resolved on the chunk that ends with the exit code; the line end after
\* it arrived later and was not forwarded: the sink holds the echoed trailer and
\* everything up to the exit code.
C35_Witness ==
    /\ ptyResolved
    /\ ptyExitCode = ptyCmdExit
    /\ ptyPos = Len(ptyStream)
    /\ ptyStream = PtyOutput(ptyShell, ptyCmdExit, <<"Resolved 3 packages", CRLF>>)
    /\ ptySink = SubSeq(ptyStream, 1, Len(ptyStream) - 1)

\* C36: once start() has been rejected by the probe timeout while its process is
\* alive and recorded, the process stays recorded (isRunning stays true, so a later
\* start() is rejected as already running) until that process emits 'exit'.
TimedOutRunning(a) ==
    /\ startOutcome[a] = "rejectedTimeout"
    /\ child[a] = "alive"
    /\ comfyServerProcess = a
C36_TimedOutProcessKept ==
    [][\A a \in Attempts :
          TimedOutRunning(a) =>
             \/ child'[a] = "exited"
             \/ /\ comfyServerProcess' = a
                /\ \A b \in Attempts :
                      startOutcome'[b] /= startOutcome[b] =>
                         startOutcome'[b] = "alreadyRunning"]_vars

\* C37: a create() for a supported device that returns successfully after running
\* commands, or after an earlier create() on this directory has thrown, has itself
\* run the venv creation, the pip bootstrap and a dependency install, all with
\* success.
CompletedHere ==
    /\ Len(veLog) >= 3
    /\ veLog[1].cmd = "venv" /\ veLog[1].code = 0
    /\ veLog[2].cmd = "ensurepip" /\ veLog[2].code = 0
    /\ veLog[Len(veLog)].cmd \in DependencyInstall /\ veLog[Len(veLog)].code = 0
C37_SuccessMeansInstalled ==
    (/\ veOp = "create"
     /\ Idle
     /\ veResult = "returned"
     /\ selectedDevice /= "unsupported"
     /\ (veLog /= <<>> \/ (vePrevOp = "create" /\ vePrevResult = "threw")))
       => CompletedHere

\* C38: however the output of a run is cut into chunks, the run resolves with the
\* exit code the trailer printed, and it has resolved once the whole output of a
\* live shell has been delivered.
TrailerCode == parseExitCode(ExitText(ptyShell, ptyCmdExit))
C38_ResolvesWhateverTheChunking ==
    /\ ptyResolved => ptyExitCode = TrailerCode
    /\ (ptyAlive /\ ptyStream /= <<>> /\ ptyPos = Len(ptyStream)) => ptyResolved

\* C40: when a kill() of a started process resolves (the process has emitted
\* 'exit'), no process is recorded any more, and a start() called next, with the
\* kill resolved and nothing recorded, passes the guard and goes on to spawn.
KillResolved(k) == killState[k] = "resolvedExit"
C40_RestartAfterKill ==
    [][\A k \in Kills :
          /\ (~KillResolved(k) /\ KillResolved(k)') =>
                /\ child[killTarget[k]] /= "none"
                /\ ~isRunning'
          /\ \A a \in Attempts :
                (/\ KillResolved(k)
                 /\ ~isRunning
                 /\ startOutcome[a] = "notCalled"
                 /\ startOutcome'[a] /= "notCalled")
                   => startOutcome'[a] = "awaitConfig"]_vars
\* The restart sequence: the first process was killed and has exited, the second
\* start() has spawned a new process, which is the recorded one.
C40_Witness ==
    /\ KillResolved(1)
    /\ killTarget[1] = 1
    /\ child[1] = "exited"
    /\ child[2] = "alive"
    /\ comfyServerProcess = 2
    /\ startOutcome[2] = "resolvedProbe"

\* C39: no handler for COMPLETE_VALIDATION is registered while another is in place,
\* under any interleaving of resolveIssues and showTroubleshootingPage, and when
\* resolveIssues has returned the handler it registered is gone.
C39_OneHandlerAtATime ==
    /\ cvRefused = "none"
    /\ riPc = "returned" => cvHandler /= "resolveIssues"

====
